---- MODULE Spec2Model ----
(***************************************************************************)
(* Model of priv/python/port_bridge.py: the wire codec (wire_to_python,    *)
(* python_to_wire and the array / frame encoders and decoders) and the     *)
(* dispatch loop of main.                                                  *)
(*                                                                         *)
(* Python values are tagged records, field t holding the Python type.      *)
(* A str is the sequence of its characters; a literal of the source that   *)
(* is only ever compared or concatenated (a key, a message) is written as  *)
(* one unit.  A raised exception is the record Raise(class, message); an   *)
(* operator that models a Python function returns either its value or the *)
(* exception it raises.  A parsed JSON document is the Python value        *)
(* json.loads returns for it.                                              *)
(***************************************************************************)
EXTENDS Integers, Sequences, FiniteSets, TLC

VARIABLES
  NUMPY_AVAILABLE,   \* module flag, line 15-19
  PANDAS_AVAILABLE,  \* module flag, line 21-25
  pc,                \* position of main: "start", "loop", "eof", "crashed"
  stdout,            \* the lines written so far, each as its JSON document
  stdout_open,       \* FALSE once the reader of the output stream is gone
  uncaught,          \* the exception that left main, PyNone while it runs
  nread,             \* how many lines main has read
  last,              \* what main did with the line it read last
  sys_modules,       \* the submodules the interpreter has imported so far
  codec_op,          \* codec run: which operation was applied
  codec_in,          \* codec run: the operand
  codec_out          \* codec run: the result

vars == <<NUMPY_AVAILABLE, PANDAS_AVAILABLE, pc, stdout, stdout_open,
          uncaught, nread, last, sys_modules, codec_op, codec_in, codec_out>>

---------------------------------------------------------------------------
(* Python values *)

PyNone == [t |-> "none"]
PyBool(b) == [t |-> "bool", b |-> b]
PyInt(n) == [t |-> "int", n |-> n]
\* a float of q quarters: every such number is a float exactly
PyFloat(q) == [t |-> "float", q |-> q]
PyStr(s) == [t |-> "str", s |-> s]
Lit(text) == [t |-> "str", s |-> <<text>>]
PyBytes(by) == [t |-> "bytes", by |-> by]
PyList(items) == [t |-> "list", items |-> items]
PyTuple(items) == [t |-> "tuple", items |-> items]
PyDict(keys, vals) == [t |-> "dict", keys |-> keys, vals |-> vals]
NdArray(dtype, shape, raw) ==
  [t |-> "ndarray", dtype |-> dtype, shape |-> shape, raw |-> raw]
RangeIndex(start, stop, step) ==
  [t |-> "RangeIndex", start |-> start, stop |-> stop, step |-> step]
Index(entries) == [t |-> "Index", entries |-> entries]
DataFrame(columns, values, index) ==
  [t |-> "DataFrame", columns |-> columns, values |-> values, index |-> index]
Series(values) == [t |-> "Series", values |-> values]
\* an object with __iter__ that is none of the above (a range, a generator):
\* iterating yields items, and raises after them when fails
Iterable(items, fails, repr) ==
  [t |-> "iterable", items |-> items, fails |-> fails, repr |-> repr]
\* any other object (a Timestamp, a complex): only its str() matters
Object(repr) == [t |-> "object", repr |-> repr]
Raise(exc, msg) == [t |-> "raise", exc |-> exc, msg |-> msg]

IsRaise(v) == v.t = "raise"

\* LET x == v IN F(x), with v evaluated once
Bind(v, F(_)) == F(v)
\* the sequence [i \in 1..n |-> e] with its elements evaluated once
Each(xs) == xs \o <<>>

\* the first exception among the results of evaluating a sequence in order
FirstRaise(rs) == rs[CHOOSE i \in 1..Len(rs) :
                       /\ IsRaise(rs[i])
                       /\ \A j \in 1..(i - 1) : ~IsRaise(rs[j])]
AnyRaise(rs) == \E i \in 1..Len(rs) : IsRaise(rs[i])

\* dict access
HasKey(d, k) == \E i \in 1..Len(d.keys) : d.keys[i] = k
GetItem(d, k) == d.vals[CHOOSE i \in 1..Len(d.keys) : d.keys[i] = k]
\* d.get(key, default)
Get(d, key, default) == IF HasKey(d, key) THEN GetItem(d, key) ELSE default
\* insertion of one item: a key already present keeps its place, new value
SetItem(d, k, v) ==
  IF HasKey(d, k)
  THEN PyDict(d.keys, [i \in 1..Len(d.keys) |-> IF d.keys[i] = k THEN v ELSE d.vals[i]])
  ELSE PyDict(Append(d.keys, k), Append(d.vals, v))
RECURSIVE DictOf(_, _)
DictOf(keys, vals) ==
  IF Len(keys) = 0 THEN PyDict(<<>>, <<>>)
  ELSE SetItem(DictOf(SubSeq(keys, 1, Len(keys) - 1), SubSeq(vals, 1, Len(vals) - 1)),
               keys[Len(keys)], vals[Len(vals)])

\* bool(v): Python truth value of the kinds the loop tests
Truthy(v) ==
  CASE v.t = "none" -> FALSE
    [] v.t = "bool" -> v.b
    [] v.t = "int" -> v.n # 0
    [] v.t = "float" -> v.q # 0
    [] v.t = "str" -> Len(v.s) > 0
    [] v.t = "bytes" -> Len(v.by) > 0
    [] v.t \in {"list", "tuple"} -> Len(v.items) > 0
    [] v.t = "dict" -> Len(v.keys) > 0
    [] OTHER -> TRUE

Digit(n) == CASE n = 0 -> "0" [] n = 1 -> "1" [] n = 2 -> "2" [] n = 3 -> "3"
              [] n = 4 -> "4" [] n = 5 -> "5" [] n = 6 -> "6" [] n = 7 -> "7"
              [] n = 8 -> "8" [] n = 9 -> "9"
RECURSIVE Digits(_)
Digits(n) == IF n < 10 THEN <<Digit(n)>> ELSE Append(Digits(n \div 10), Digit(n % 10))

\* A str is a sequence of units. Where the characters of a text matter (a
\* base64 text, a text that repr() quotes, the dots of a module name) a unit
\* is one character: an ASCII character is written as itself, any other
\* character by its name U+XXXX. A text that is only copied and compared (an
\* identifier without dots, a message) may be written as one unit.

\* the printable ASCII characters, from code 32 to code 126; the grave
\* accent, code 96, is written U+0060
Printable ==
  <<" ","!","\"","#","$","%","&","'","(",")","*","+",",","-",".","/",
    "0","1","2","3","4","5","6","7","8","9",":",";","<","=",">","?",
    "@","A","B","C","D","E","F","G","H","I","J","K","L","M","N","O",
    "P","Q","R","S","T","U","V","W","X","Y","Z","[","\\","]","^","_",
    "U+0060","a","b","c","d","e","f","g","h","i","j","k","l","m","n","o",
    "p","q","r","s","t","u","v","w","x","y","z","{","|","}","~">>
\* the characters written by name: the code point, and whether
\* str.isprintable() holds of the character
Named ==
  { [c |-> "U+0000", code |-> 0, printable |-> FALSE],
    [c |-> "U+001B", code |-> 27, printable |-> FALSE],
    [c |-> "U+007F", code |-> 127, printable |-> FALSE],
    [c |-> "U+0085", code |-> 133, printable |-> FALSE],
    [c |-> "U+00A0", code |-> 160, printable |-> FALSE],
    [c |-> "U+00E9", code |-> 233, printable |-> TRUE],
    [c |-> "U+200B", code |-> 8203, printable |-> FALSE],
    [c |-> "U+2028", code |-> 8232, printable |-> FALSE],
    [c |-> "U+1F600", code |-> 128512, printable |-> TRUE],
    [c |-> "U+E0001", code |-> 917505, printable |-> FALSE] }
IsNamed(c) == \E r \in Named : r.c = c
Char(c) == CHOOSE r \in Named : r.c = c
IsAscii(c) == ~IsNamed(c) \/ Char(c).code < 128

Hex(n) == IF n < 10 THEN Digit(n) ELSE <<"a", "b", "c", "d", "e", "f">>[n - 9]
\* the last w hexadecimal digits of n
RECURSIVE HexDigits(_, _)
HexDigits(n, w) ==
  IF w = 0 THEN <<>> ELSE Append(HexDigits(n \div 16, w - 1), Hex(n % 16))

RECURSIVE Concat(_)
Concat(seqs) == IF Len(seqs) = 0 THEN <<>> ELSE Head(seqs) \o Concat(Tail(seqs))
\* the texts joined by ", "
Join(texts) ==
  Concat([i \in 1..Len(texts) |-> IF i = 1 THEN texts[i] ELSE <<",", " ">> \o texts[i]])

\* the quote repr() puts around a text: the double quote when the text has
\* a single quote and no double quote
Quote(units) ==
  IF (\E i \in 1..Len(units) : units[i] = "'") /\ ~(\E i \in 1..Len(units) : units[i] = "\"")
  THEN "\"" ELSE "'"
\* one character of a str between the quotes of its repr(): a character
\* that is not printable is written \xNN, \uNNNN or \UNNNNNNNN by its code
ReprChar(c, q) ==
  CASE c = "\\" -> <<"\\", "\\">>
    [] c = q -> <<"\\", q>>
    [] c = "\t" -> <<"\\", "t">>
    [] c = "\n" -> <<"\\", "n">>
    [] c = "\r" -> <<"\\", "r">>
    [] c = "\f" -> <<"\\", "x", "0", "c">>
    [] IsNamed(c) /\ ~Char(c).printable ->
         IF Char(c).code < 256 THEN <<"\\", "x">> \o HexDigits(Char(c).code, 2)
         ELSE IF Char(c).code < 65536 THEN <<"\\", "u">> \o HexDigits(Char(c).code, 4)
         ELSE <<"\\", "U">> \o HexDigits(Char(c).code, 8)
    [] OTHER -> <<c>>
\* one byte of a bytes object between the quotes of its repr()
ReprByte(b, q) ==
  CASE b = 9 -> <<"\\", "t">>
    [] b = 10 -> <<"\\", "n">>
    [] b = 13 -> <<"\\", "r">>
    [] b \in 32..126 -> ReprChar(Printable[b - 31], q)
    [] OTHER -> <<"\\", "x", Hex(b \div 16), Hex(b % 16)>>

\* an int of more decimal digits than the interpreter converts to a string
\* (sys.int_max_str_digits, 4300 by default), and the ValueError of the
\* conversion
HugeInt == [t |-> "int", huge |-> TRUE]
IsHuge(v) == v.t = "int" /\ "huge" \in DOMAIN v
TooLong ==
  Raise("ValueError",
        "Exceeds the limit (4300 digits) for integer string conversion; use sys.set_int_max_str_digits() to increase the limit")

\* float.__repr__ of q quarters: below 10^16 the shortest text that reads
\* back is the decimal expansion, which ends after two places at most
FloatRepr(q) ==
  LET m == IF q < 0 THEN 0 - q ELSE q
  IN (IF q < 0 THEN <<"-">> ELSE <<>>) \o Digits(m \div 4) \o <<".">>
       \o << <<"0">>, <<"2", "5">>, <<"5">>, <<"7", "5">> >>[(m % 4) + 1]

\* the file a module is loaded from; <stdlib>, <site-packages> and <abi>
\* stand for the library directories and the extension suffix of the
\* installation
Origin(name) ==
  CASE name = "copy" -> "<stdlib>/copy.py"
    [] name = "math" -> "<stdlib>/lib-dynload/math<abi>.so"
    [] name = "importlib" -> "<stdlib>/importlib/__init__.py"
    [] name = "xml" -> "<stdlib>/xml/__init__.py"
    [] name = "xml.dom" -> "<stdlib>/xml/dom/__init__.py"
    [] name = "pandas" -> "<site-packages>/pandas/__init__.py"

\* repr(v), a str, or the exception repr() raises: the text of an array, a
\* frame and a function is not modelled
RECURSIVE py_repr(_)
py_repr(v) ==
  CASE v.t = "str" ->
         PyStr(<<Quote(v.s)>> \o Concat([i \in 1..Len(v.s) |-> ReprChar(v.s[i], Quote(v.s))])
                 \o <<Quote(v.s)>>)
    [] v.t = "bytes" ->
         LET q == Quote([i \in 1..Len(v.by) |->
                          IF v.by[i] \in 32..126 THEN Printable[v.by[i] - 31] ELSE "?"])
         IN PyStr(<<"b", q>> \o Concat([i \in 1..Len(v.by) |-> ReprByte(v.by[i], q)]) \o <<q>>)
    [] IsHuge(v) -> TooLong
    [] v.t = "int" -> PyStr(IF v.n < 0 THEN <<"-">> \o Digits(0 - v.n) ELSE Digits(v.n))
    [] v.t = "float" -> PyStr(FloatRepr(v.q))
    [] v.t = "none" -> PyStr(<<"None">>)
    [] v.t = "bool" -> PyStr(IF v.b THEN <<"True">> ELSE <<"False">>)
    [] v.t \in {"tuple", "list"} ->
         Bind(Each([i \in 1..Len(v.items) |-> py_repr(v.items[i])]), LAMBDA xs :
         IF AnyRaise(xs) THEN FirstRaise(xs)
         ELSE PyStr((IF v.t = "tuple" THEN <<"(">> ELSE <<"[">>)
                      \o Join([i \in 1..Len(xs) |-> xs[i].s])
                      \o (IF v.t = "list" THEN <<"]">>
                          ELSE IF Len(xs) = 1 THEN <<",", ")">> ELSE <<")">>)))
    [] v.t = "dict" ->
         Bind(Each([j \in 1..(2 * Len(v.keys)) |->
                      IF j % 2 = 1 THEN py_repr(v.keys[(j + 1) \div 2])
                      ELSE py_repr(v.vals[j \div 2])]), LAMBDA xs :
         IF AnyRaise(xs) THEN FirstRaise(xs)
         ELSE PyStr(<<"{">> \o Join([i \in 1..Len(v.keys) |->
                                      xs[2 * i - 1].s \o <<":", " ">> \o xs[2 * i].s])
                      \o <<"}">>))
    [] v.t \in {"iterable", "object"} -> PyStr(v.repr)
    [] v.t = "module" /\ v.name \in {"sys", "builtins"} ->
         PyStr(<<"<module '", v.name, "' (built-in)>">>)
    [] v.t = "module" -> PyStr(<<"<module '", v.name, "' from '", Origin(v.name), "'>">>)
    [] v.t = "function" -> PyStr(<<"<function ", v.name, ">">>)
    [] OTHER -> PyStr(<<"<", v.t, ">">>)

\* str(v): the text itself for a str, repr(v) for the other kinds
py_str(v) == IF v.t = "str" THEN v ELSE py_repr(v)

---------------------------------------------------------------------------
(* base64 *)

B64Chars ==
  <<"A","B","C","D","E","F","G","H","I","J","K","L","M","N","O","P",
    "Q","R","S","T","U","V","W","X","Y","Z","a","b","c","d","e","f",
    "g","h","i","j","k","l","m","n","o","p","q","r","s","t","u","v",
    "w","x","y","z","0","1","2","3","4","5","6","7","8","9","+","/">>
IsB64Char(c) == \E i \in 1..Len(B64Chars) : B64Chars[i] = c
B64Index(c) == (CHOOSE i \in 1..Len(B64Chars) : B64Chars[i] = c) - 1
B64(n) == B64Chars[n + 1]

\* base64.b64encode(by).decode('ascii'), as a character sequence
b64encode(by) ==
  Each([k \in 1..(4 * ((Len(by) + 2) \div 3)) |->
     LET g == (k - 1) \div 4
         b0 == by[3 * g + 1]
         b1 == IF 3 * g + 2 <= Len(by) THEN by[3 * g + 2] ELSE 0
         b2 == IF 3 * g + 3 <= Len(by) THEN by[3 * g + 3] ELSE 0
     IN CASE (k - 1) % 4 = 0 -> B64(b0 \div 4)
          [] (k - 1) % 4 = 1 -> B64((b0 % 4) * 16 + b1 \div 16)
          [] (k - 1) % 4 = 2 ->
               IF 3 * g + 2 > Len(by) THEN "=" ELSE B64((b1 % 16) * 4 + b2 \div 64)
          [] (k - 1) % 4 = 3 ->
               IF 3 * g + 3 > Len(by) THEN "=" ELSE B64(b2 % 64)])

\* the alphabet characters of s: characters outside the alphabet are skipped
Sextets(s) == SelectSeq(s, IsB64Char)
\* quad_pos when the character at p is read
QuadPos(s, p) == Len(Sextets(SubSeq(s, 1, p - 1))) % 4
\* pads once the pad character at p is read: the pad characters since the
\* last alphabet character
Pads(s, p) ==
  Cardinality({q \in 1..p : s[q] = "=" /\ \A r \in q..p : ~IsB64Char(s[r])})
\* the pad characters that complete a group and so end the parse
Ends(s) ==
  {p \in 1..Len(s) : s[p] = "=" /\ QuadPos(s, p) >= 2 /\ QuadPos(s, p) + Pads(s, p) >= 4}
\* the bytes of the alphabet characters read
Octets(data) ==
  Each([k \in 1..(3 * (Len(data) \div 4)
                  + IF Len(data) % 4 >= 2 THEN (Len(data) % 4) - 1 ELSE 0) |->
     LET g == (k - 1) \div 3
         c1 == B64Index(data[4 * g + 1])
         c2 == B64Index(data[4 * g + 2])
     IN CASE (k - 1) % 3 = 0 -> c1 * 4 + c2 \div 16
          [] (k - 1) % 3 = 1 -> (c2 % 16) * 16 + B64Index(data[4 * g + 3]) \div 4
          [] (k - 1) % 3 = 2 ->
               (B64Index(data[4 * g + 3]) % 4) * 64 + B64Index(data[4 * g + 4])])

\* binascii.a2b_base64 without validation: characters outside the alphabet
\* are skipped, a completed pad ends the parse, a dangling group raises
a2b_base64(s) ==
  Bind(Ends(s), LAMBDA ends :
    IF ends # {}
    THEN PyBytes(Octets(Sextets(SubSeq(s, 1, (CHOOSE p \in ends : \A q \in ends : p <= q) - 1))))
    ELSE Bind(Sextets(s), LAMBDA data :
         IF Len(data) % 4 = 0 THEN PyBytes(Octets(data))
         ELSE IF Len(data) % 4 = 1
           THEN Raise("binascii.Error", "Invalid base64-encoded string")
           ELSE Raise("binascii.Error", "Incorrect padding")))

\* the character of an ASCII code, as far as base64 tells characters apart
AsciiChar(b) ==
  CASE b \in 65..90 -> B64(b - 65)
    [] b \in 97..122 -> B64(b - 97 + 26)
    [] b \in 48..57 -> B64(b - 48 + 52)
    [] b = 43 -> "+"
    [] b = 47 -> "/"
    [] b = 61 -> "="
    [] OTHER -> "?"

\* base64.b64decode(v)
b64decode(v) ==
  CASE v.t = "raise" -> v
    [] v.t = "str" ->
         IF \E i \in 1..Len(v.s) : ~IsAscii(v.s[i])
         THEN Raise("ValueError", "string argument should contain only ASCII characters")
         ELSE a2b_base64(v.s)
    [] v.t = "bytes" -> a2b_base64([i \in 1..Len(v.by) |-> AsciiChar(v.by[i])])
    [] OTHER -> Raise("TypeError", "argument should be a bytes-like object or ASCII string")

---------------------------------------------------------------------------
(* numpy and pandas, as far as the codec uses them *)

\* obj[key] for a str key
Subscript(obj, key) ==
  CASE obj.t = "dict" ->
         IF HasKey(obj, key) THEN GetItem(obj, key) ELSE Raise("KeyError", "key")
    [] obj.t \in {"list", "tuple", "str", "bytes"} ->
         Raise("TypeError", "indices must be integers")
    [] OTHER -> Raise("TypeError", "object is not subscriptable")

\* tuple(obj)
py_tuple(obj) ==
  CASE obj.t = "raise" -> obj
    [] obj.t \in {"list", "tuple"} -> PyTuple(obj.items)
    [] obj.t = "str" -> PyTuple([i \in 1..Len(obj.s) |-> PyStr(<<obj.s[i]>>)])
    [] obj.t = "bytes" -> PyTuple([i \in 1..Len(obj.by) |-> PyInt(obj.by[i])])
    [] obj.t = "dict" -> PyTuple(obj.keys)
    [] obj.t = "iterable" ->
         IF obj.fails THEN Raise("Exception", "raised while iterating")
         ELSE PyTuple(obj.items)
    [] OTHER -> Raise("TypeError", "object is not iterable")

DTypeKinds == <<"float64", "float32", "int64", "int32", "int16", "int8",
                "uint64", "uint32", "uint16", "uint8">>
DTypeTags == <<"f64", "f32", "i64", "i32", "i16", "i8", "u64", "u32", "u16", "u8">>

\* arr.dtype.itemsize
itemsize(kind) ==
  CASE kind \in {"float64", "int64", "uint64"} -> 8
    [] kind \in {"float32", "int32", "uint32"} -> 4
    [] kind \in {"int16", "uint16"} -> 2
    [] kind \in {"int8", "uint8", "bool_"} -> 1
    [] kind = "complex128" -> 16
    [] kind = "object_" -> 8

RECURSIVE Prod(_)
Prod(dims) == IF Len(dims) = 0 THEN 1 ELSE Head(dims) * Prod(Tail(dims))

\* np.frombuffer(raw_bytes, dtype=dtype): a one-dimensional array
frombuffer(raw_bytes, dtype) ==
  IF Len(raw_bytes.by) % itemsize(dtype) # 0
  THEN Raise("ValueError", "buffer size must be a multiple of element size")
  ELSE NdArray(dtype, <<Len(raw_bytes.by) \div itemsize(dtype)>>, raw_bytes.by)

\* arr.reshape(shape), shape a tuple; one dimension may be -1
reshape(arr, shape) ==
  LET dims == shape.items
      size == Prod(arr.shape)
      unknown == {i \in 1..Len(dims) : dims[i].t = "int" /\ dims[i].n < 0}
      known == Prod([i \in 1..Len(dims) |-> IF i \in unknown THEN 1 ELSE dims[i].n])
  IN IF \E i \in 1..Len(dims) : dims[i].t # "int"
     THEN Raise("TypeError", "object cannot be interpreted as an integer")
     ELSE IF Cardinality(unknown) > 1
     THEN Raise("ValueError", "can only specify one unknown dimension")
     ELSE IF Cardinality(unknown) = 1
     THEN IF known = 0 \/ size % known # 0
          THEN Raise("ValueError", "cannot reshape array")
          ELSE NdArray(arr.dtype,
                       [i \in 1..Len(dims) |->
                          IF i \in unknown THEN size \div known ELSE dims[i].n],
                       arr.raw)
     ELSE IF known # size
     THEN Raise("ValueError", "cannot reshape array")
     ELSE NdArray(arr.dtype, [i \in 1..Len(dims) |-> dims[i].n], arr.raw)

\* list(index) of a pandas index
index_list(idx) ==
  IF idx.t = "RangeIndex"
  THEN LET n == IF idx.step > 0 /\ idx.stop > idx.start
                THEN (idx.stop - idx.start + idx.step - 1) \div idx.step
                ELSE 0
       IN [i \in 1..n |-> PyInt(idx.start + (i - 1) * idx.step)]
  ELSE idx.entries

\* pd.DataFrame(data, columns=columns) for an array data
pd_DataFrame(data, columns) ==
  IF Len(data.shape) > 2 \/ Len(data.shape) = 0
  THEN Raise("ValueError", "Must pass 2-d input")
  ELSE LET shape2 == IF Len(data.shape) = 1 THEN <<data.shape[1], 1>> ELSE data.shape
           values == NdArray(data.dtype, shape2, data.raw)
           rows == RangeIndex(0, shape2[1], 1)
       IN CASE columns.t = "none" ->
                 DataFrame(RangeIndex(0, shape2[2], 1), values, rows)
            [] columns.t = "list" ->
                 IF Len(columns.items) = shape2[2]
                 THEN DataFrame(Index(columns.items), values, rows)
                 ELSE Raise("ValueError", "Shape of passed values does not match indices")
            [] OTHER -> Raise("TypeError", "Index(...) must be called with a collection")

\* df.index = index
set_index(df, index) ==
  IF index.t # "list"
  THEN Raise("TypeError", "Index(...) must be called with a collection")
  ELSE IF Len(index.items) # df.values.shape[1]
  THEN Raise("ValueError", "Length mismatch")
  ELSE [df EXCEPT !.index = Index(index.items)]

---------------------------------------------------------------------------
(* the wire codec *)

\* dtype_map.get(arr.dtype.type, 'f64'), line 75-83
encode_dtype(kind) ==
  IF \E i \in 1..Len(DTypeKinds) : DTypeKinds[i] = kind
  THEN DTypeTags[CHOOSE i \in 1..Len(DTypeKinds) : DTypeKinds[i] = kind]
  ELSE "f64"

encode_numpy_array(arr) ==
  PyDict(<<Lit("dtype"), Lit("shape"), Lit("data")>>,
         <<Lit(encode_dtype(arr.dtype)),
           PyTuple([i \in 1..Len(arr.shape) |-> PyInt(arr.shape[i])]),
           PyStr(b64encode(arr.raw))>>)

\* dtype_map.get(arr_info["dtype"], np.float64), line 102-110
decode_dtype(tag) ==
  IF tag.t = "str" /\ \E i \in 1..Len(DTypeTags) : tag.s = <<DTypeTags[i]>>
  THEN DTypeKinds[CHOOSE i \in 1..Len(DTypeTags) : tag.s = <<DTypeTags[i]>>]
  ELSE "float64"

decode_numpy_array(arr_info) ==
  IF ~NUMPY_AVAILABLE THEN Raise("ImportError", "numpy not available")
  ELSE Bind(Subscript(arr_info, Lit("dtype")), LAMBDA tag :
  IF IsRaise(tag) THEN tag
  ELSE IF tag.t \in {"list", "dict"} THEN Raise("TypeError", "unhashable type")
  ELSE Bind(py_tuple(Subscript(arr_info, Lit("shape"))), LAMBDA shape :
  IF IsRaise(shape) THEN shape
  ELSE Bind(b64decode(Subscript(arr_info, Lit("data"))), LAMBDA raw_bytes :
  IF IsRaise(raw_bytes) THEN raw_bytes
  ELSE Bind(frombuffer(raw_bytes, decode_dtype(tag)), LAMBDA arr :
  IF IsRaise(arr) THEN arr
  ELSE IF Len(shape.items) > 0 THEN reshape(arr, shape)
  ELSE arr))))

encode_pandas_df(df) ==
  PyDict(<<Lit("columns"), Lit("data"), Lit("index")>>,
         <<PyList(index_list(df.columns)),
           encode_numpy_array(df.values),
           IF df.index.t # "RangeIndex" THEN PyList(index_list(df.index)) ELSE PyNone>>)

decode_pandas_df(df_info) ==
  IF ~PANDAS_AVAILABLE THEN Raise("ImportError", "pandas not available")
  ELSE Bind(Subscript(df_info, Lit("data")), LAMBDA info :
  IF IsRaise(info) THEN info
  ELSE Bind(decode_numpy_array(info), LAMBDA data :
  IF IsRaise(data) THEN data
  ELSE Bind(Subscript(df_info, Lit("columns")), LAMBDA columns :
  IF IsRaise(columns) THEN columns
  ELSE Bind(Get(df_info, Lit("index"), PyNone), LAMBDA index :
       Bind(pd_DataFrame(data, columns), LAMBDA df :
  IF IsRaise(df) THEN df
  ELSE IF Truthy(index) THEN set_index(df, index)
  ELSE df)))))

\* a faulty variant of wire_to_python that takes __bytes__ for a marker only
\* when it is the only key; the marker property must tell it from
\* wire_to_python
RECURSIVE wire_to_python_sole_key(_)
wire_to_python_sole_key(obj) ==
  IF obj.t = "dict"
  THEN IF HasKey(obj, Lit("__numpy_array__")) /\ NUMPY_AVAILABLE
       THEN decode_numpy_array(GetItem(obj, Lit("__numpy_array__")))
       ELSE IF HasKey(obj, Lit("__pandas_df__")) /\ PANDAS_AVAILABLE
       THEN decode_pandas_df(GetItem(obj, Lit("__pandas_df__")))
       ELSE IF HasKey(obj, Lit("__bytes__")) /\ Len(obj.keys) = 1
       THEN b64decode(GetItem(obj, Lit("__bytes__")))
       ELSE Bind(Each([i \in 1..Len(obj.vals) |-> wire_to_python_sole_key(obj.vals[i])]),
                 LAMBDA vs : IF AnyRaise(vs) THEN FirstRaise(vs) ELSE PyDict(obj.keys, vs))
  ELSE IF obj.t = "list"
  THEN Bind(Each([i \in 1..Len(obj.items) |-> wire_to_python_sole_key(obj.items[i])]),
            LAMBDA xs : IF AnyRaise(xs) THEN FirstRaise(xs) ELSE PyList(xs))
  ELSE obj

\* wire_to_python(obj), line 28-43: the markers are tested in the order array,
\* frame, bytes, the first two only where their library is installed
RECURSIVE wire_to_python(_)
wire_to_python(obj) ==
  IF obj.t = "dict"
  THEN IF HasKey(obj, Lit("__numpy_array__")) /\ NUMPY_AVAILABLE
       THEN decode_numpy_array(GetItem(obj, Lit("__numpy_array__")))
       ELSE IF HasKey(obj, Lit("__pandas_df__")) /\ PANDAS_AVAILABLE
       THEN decode_pandas_df(GetItem(obj, Lit("__pandas_df__")))
       ELSE IF HasKey(obj, Lit("__bytes__"))
       THEN b64decode(GetItem(obj, Lit("__bytes__")))
       ELSE Bind(Each([i \in 1..Len(obj.vals) |-> wire_to_python(obj.vals[i])]), LAMBDA vs :
            IF AnyRaise(vs) THEN FirstRaise(vs) ELSE PyDict(obj.keys, vs))
  ELSE IF obj.t = "list"
  THEN Bind(Each([i \in 1..Len(obj.items) |-> wire_to_python(obj.items[i])]), LAMBDA xs :
       IF AnyRaise(xs) THEN FirstRaise(xs) ELSE PyList(xs))
  ELSE obj

RECURSIVE python_to_wire(_)
python_to_wire(obj) ==
  IF obj.t = "none" THEN PyNone
  ELSE IF obj.t \in {"int", "float", "str", "bool"} THEN obj
  ELSE IF obj.t = "bytes"
  THEN PyDict(<<Lit("__bytes__")>>, <<PyStr(b64encode(obj.by))>>)
  ELSE IF obj.t \in {"list", "tuple"}
  THEN Bind(Each([i \in 1..Len(obj.items) |-> python_to_wire(obj.items[i])]), LAMBDA xs :
       IF AnyRaise(xs) THEN FirstRaise(xs) ELSE PyList(xs))
  ELSE IF obj.t = "dict"
  THEN Bind(Each([i \in 1..Len(obj.keys) |-> py_str(obj.keys[i])]), LAMBDA ks :
       Bind(Each([i \in 1..Len(obj.vals) |-> python_to_wire(obj.vals[i])]), LAMBDA vs :
       Bind({i \in 1..Len(ks) : IsRaise(ks[i]) \/ IsRaise(vs[i])}, LAMBDA bad :
       IF bad = {} THEN DictOf(ks, vs)
       ELSE Bind(CHOOSE i \in bad : \A j \in bad : i <= j, LAMBDA i :
            IF IsRaise(ks[i]) THEN ks[i] ELSE vs[i]))))
  ELSE IF NUMPY_AVAILABLE /\ obj.t = "ndarray"
  THEN PyDict(<<Lit("__numpy_array__")>>, <<encode_numpy_array(obj)>>)
  ELSE IF PANDAS_AVAILABLE /\ obj.t = "DataFrame"
  THEN PyDict(<<Lit("__pandas_df__")>>, <<encode_pandas_df(obj)>>)
  ELSE IF PANDAS_AVAILABLE /\ obj.t = "Series"
  THEN PyDict(<<Lit("__numpy_array__")>>, <<encode_numpy_array(obj.values)>>)
  ELSE IF obj.t = "iterable"
  THEN Bind(Each([i \in 1..Len(obj.items) |-> python_to_wire(obj.items[i])]), LAMBDA xs :
       IF obj.fails \/ AnyRaise(xs) THEN py_str(obj) ELSE PyList(xs))
  ELSE py_str(obj)

---------------------------------------------------------------------------
(* json *)

\* a JSON array nested deeper than the interpreter's recursion limit
Deep == [t |-> "deep"]

\* what stops the parser inside a value, read in the order of the text: an
\* int literal of more than 4300 digits, or nesting beyond the recursion
\* limit; PyNone when nothing does
RECURSIVE scan(_)
scan(v) ==
  CASE IsHuge(v) ->
         Raise("ValueError",
               "Exceeds the limit (4300 digits) for integer string conversion: value has more digits; use sys.set_int_max_str_digits() to increase the limit")
    [] v.t = "deep" ->
         Raise("RecursionError",
               "maximum recursion depth exceeded while decoding a JSON array from a unicode string")
    [] v.t = "list" ->
         Bind(Each([i \in 1..Len(v.items) |-> scan(v.items[i])]), LAMBDA xs :
         IF AnyRaise(xs) THEN FirstRaise(xs) ELSE PyNone)
    [] v.t = "dict" ->
         Bind(Each([i \in 1..Len(v.vals) |-> scan(v.vals[i])]), LAMBDA xs :
         IF AnyRaise(xs) THEN FirstRaise(xs) ELSE PyNone)
    [] OTHER -> PyNone

\* json.loads(line): a line is given by whether it is blank, by whether its
\* text is a JSON document, and by the value that document parses to; of a
\* text that is no JSON document, doc is the part read before the error
json_loads(line) ==
  Bind(scan(line.doc), LAMBDA stopped :
  IF IsRaise(stopped) THEN stopped
  ELSE IF line.raw = "invalid"
  THEN Raise("JSONDecodeError", "Expecting value")
  ELSE line.doc)

\* json.dumps(obj): the document written, the TypeError for a value the
\* encoder does not know (bytes, an array, any other object), or the
\* ValueError for an int too long to print
\* the key the encoder writes for a key of a dict: items are written in
\* order, the key of an item before its value
json_key(k) ==
  CASE k.t = "str" -> k
    [] k.t = "bool" -> IF k.b THEN Lit("true") ELSE Lit("false")
    [] k.t = "none" -> Lit("null")
    [] k.t \in {"int", "float"} -> py_repr(k)
    [] OTHER -> Raise("TypeError", "keys must be str, int, float, bool or None")

RECURSIVE json_dumps(_)
json_dumps(obj) ==
  CASE IsHuge(obj) -> TooLong
    [] obj.t \in {"none", "bool", "int", "float", "str"} -> obj
    [] obj.t \in {"list", "tuple"} ->
         Bind(Each([i \in 1..Len(obj.items) |-> json_dumps(obj.items[i])]), LAMBDA xs :
         IF AnyRaise(xs) THEN FirstRaise(xs) ELSE PyList(xs))
    [] obj.t = "dict" ->
         Bind(Each([i \in 1..Len(obj.keys) |-> json_key(obj.keys[i])]), LAMBDA ks :
         Bind(Each([i \in 1..Len(obj.vals) |-> json_dumps(obj.vals[i])]), LAMBDA vs :
         Bind({i \in 1..Len(ks) : IsRaise(ks[i]) \/ IsRaise(vs[i])}, LAMBDA bad :
         IF bad = {} THEN DictOf(ks, vs)
         ELSE Bind(CHOOSE i \in bad : \A j \in bad : i <= j, LAMBDA i :
              IF IsRaise(ks[i]) THEN ks[i] ELSE vs[i]))))
    [] OTHER -> Raise("TypeError", "Object is not JSON serializable")

---------------------------------------------------------------------------
(* the callables a request can name: importlib.import_module, getattr and  *)
(* the call itself, for the modules and functions the requests below use   *)

\* the one element of an array is not zero; a float is zero whatever its
\* sign bit, a complex number when both its halves are
NonZero(kind, raw) ==
  IF kind \in {"float64", "float32", "complex128"}
  THEN LET w == IF kind = "float32" THEN 4 ELSE 8
       IN \E i \in 1..Len(raw) : IF i % w = 0 THEN raw[i] % 128 # 0 ELSE raw[i] # 0
  ELSE \E i \in 1..Len(raw) : raw[i] # 0

\* the truth value `if kwargs:` takes, line 197; an array of no element is
\* false (numpy before 2.2), an array of one element has the truth of that
\* element
truth(kwargs) ==
  IF kwargs.t \in {"DataFrame", "Series"} \/ (kwargs.t = "ndarray" /\ Prod(kwargs.shape) > 1)
  THEN Raise("ValueError", "The truth value is ambiguous")
  ELSE IF kwargs.t = "ndarray"
  THEN PyBool(Prod(kwargs.shape) = 1 /\ NonZero(kwargs.dtype, kwargs.raw))
  ELSE PyBool(Truthy(kwargs))

Module(name) == [t |-> "module", name |-> name]
Function(mod, name) == [t |-> "function", mod |-> mod, name |-> name]

\* the modules the interpreter can import; pandas only where it is installed
Importable ==
  {"builtins", "sys", "copy", "math", "importlib", "xml", "xml.dom"}
    \cup (IF PANDAS_AVAILABLE THEN {"pandas"} ELSE {})
\* the submodules among them: importing one binds it as an attribute of its
\* parent package, which the package does not have before
Submodules == {"xml.dom"}
\* the functions of those modules that the requests name
Attributes(mod) ==
  CASE mod = "builtins" -> {"len"}
    [] mod = "xml" -> {}
    [] mod = "xml.dom" -> {}
    [] mod = "sys" -> {"exit"}
    [] mod = "copy" -> {"copy"}
    [] mod = "math" -> {"factorial"}
    [] mod = "importlib" -> {"import_module"}
    [] mod = "pandas" -> {"DataFrame"}

\* the packages among the modules: the modules that have submodules
Packages == {"importlib", "xml", "xml.dom"} \cup (IF PANDAS_AVAILABLE THEN {"pandas"} ELSE {})
\* the name of a module, each dot a unit of its own
Dotted(m) == IF m = "xml.dom" THEN <<"xml", ".", "dom">> ELSE <<m>>
\* the module of a name, if any; a name given as one unit is read as well
Known(units) == {m \in Importable : units = <<m>> \/ units = Dotted(m)}
\* the places of the dots of a name
Dots(units) == {i \in 1..Len(units) : units[i] = "."}
Last(places) == CHOOSE i \in places : \A j \in places : j <= i

\* importlib._bootstrap._find_and_load(name): [result, loaded], loaded the
\* modules the import brings in; the parent package is imported first, also
\* when the module itself is then not found
RECURSIVE find_and_load(_)
find_and_load(units) ==
  Bind(IF Known(units) = {}
       THEN Raise("ModuleNotFoundError", "No module named")
       ELSE Module(CHOOSE m \in Known(units) : TRUE), LAMBDA found :
     IF ~IsRaise(found)
     THEN [result |-> found,
           loaded |-> {m \in Importable :
                         \E i \in Dots(Dotted(found.name)) \cup {Len(Dotted(found.name)) + 1} :
                            Dotted(m) = SubSeq(Dotted(found.name), 1, i - 1)}]
     ELSE IF Dots(units) = {} THEN [result |-> found, loaded |-> {}]
     ELSE Bind(find_and_load(SubSeq(units, 1, Last(Dots(units)) - 1)), LAMBDA parent :
          IF IsRaise(parent.result) THEN parent
          ELSE IF parent.result.name \notin Packages
          THEN [result |-> Raise("ModuleNotFoundError", "No module named; parent is not a package"),
                loaded |-> parent.loaded]
          ELSE [result |-> found, loaded |-> parent.loaded]))

\* importlib._bootstrap._resolve_name(name, package, level): the absolute
\* name of a relative one, name without its leading dots
resolve_name(name, package, level) ==
  Bind(IF Known(package) = {} THEN package ELSE Dotted(CHOOSE m \in Known(package) : TRUE),
       LAMBDA pkg :
  IF Cardinality(Dots(pkg)) + 1 < level
  THEN Raise("ImportError", "attempted relative import beyond top-level package")
  ELSE Bind(IF level = 1 THEN pkg
            ELSE SubSeq(pkg, 1, (CHOOSE i \in Dots(pkg) :
                                   Cardinality({j \in Dots(pkg) : j >= i}) = level - 1) - 1),
            LAMBDA base :
       PyStr(IF name = <<>> THEN base ELSE base \o <<".">> \o name)))

\* the import behind importlib.import_module(name, package): [result, loaded]
load(name, package) ==
  LET failed(e) == [result |-> e, loaded |-> {}]
  IN IF name.t = "bytes"
     THEN failed(Raise("TypeError", "startswith first arg must be bytes or a tuple of bytes, not str"))
     ELSE IF name.t # "str"
     THEN failed(Raise("AttributeError", "object has no attribute 'startswith'"))
     ELSE IF name.s = <<>> THEN failed(Raise("ValueError", "Empty module name"))
     ELSE IF name.s[1] # "." THEN find_and_load(name.s)
     ELSE IF IsRaise(truth(package)) THEN failed(truth(package))
     ELSE IF ~truth(package).b
     THEN failed(Raise("TypeError",
                       "the 'package' argument is required to perform a relative import"))
     ELSE IF package.t # "str"
     THEN failed(Raise("TypeError", "__package__ not set to a string"))
     ELSE Bind(CHOOSE l \in 1..Len(name.s) :
                 /\ \A i \in 1..l : name.s[i] = "."
                 /\ (l = Len(name.s) \/ name.s[l + 1] # "."), LAMBDA level :
          Bind(resolve_name(SubSeq(name.s, level + 1, Len(name.s)), package.s, level),
               LAMBDA absolute :
          IF IsRaise(absolute) THEN failed(absolute) ELSE find_and_load(absolute.s)))

\* importlib.import_module(name, package), line 193 with the name alone
import_module(name, package) == load(name, package).result

\* getattr(mod, func_name), line 194
py_getattr(mod, func_name) ==
  IF func_name.t # "str"
  THEN Raise("TypeError", "attribute name must be string")
  ELSE IF mod.name = "xml" /\ func_name.s = <<"dom">> /\ "xml.dom" \in sys_modules
  THEN Module("xml.dom")
  ELSE IF \E f \in Attributes(mod.name) : func_name.s = <<f>>
  THEN Function(mod.name, CHOOSE f \in Attributes(mod.name) : func_name.s = <<f>>)
  ELSE Raise("AttributeError", "module has no attribute")

\* the positional arguments *args unpacks to
star(args) ==
  CASE args.t \in {"list", "tuple"} -> PyTuple(args.items)
    [] args.t = "str" -> PyTuple([i \in 1..Len(args.s) |-> PyStr(<<args.s[i]>>)])
    [] args.t = "bytes" -> PyTuple([i \in 1..Len(args.by) |-> PyInt(args.by[i])])
    [] args.t = "dict" -> PyTuple(args.keys)
    [] args.t = "iterable" ->
         IF args.fails THEN Raise("Exception", "raised while iterating")
         ELSE PyTuple(args.items)
    [] OTHER -> Raise("TypeError", "argument after * must be an iterable")

\* len(x)
py_len(x) ==
  CASE x.t \in {"list", "tuple"} -> PyInt(Len(x.items))
    [] x.t = "str" -> PyInt(Len(x.s))
    [] x.t = "bytes" -> PyInt(Len(x.by))
    [] x.t = "dict" -> PyInt(Len(x.keys))
    [] x.t = "ndarray" /\ Len(x.shape) > 0 -> PyInt(x.shape[1])
    [] x.t = "DataFrame" -> PyInt(x.values.shape[1])
    [] OTHER -> Raise("TypeError", "object has no len()")

\* math.factorial(x): n! has more than 4300 digits from n = 1559 on
RECURSIVE Fact(_)
Fact(n) == IF n <= 1 THEN 1 ELSE n * Fact(n - 1)
factorial(x) ==
  IF x.t \notin {"int", "bool"}
  THEN Raise("TypeError", "object cannot be interpreted as an integer")
  ELSE Bind(IF x.t = "bool" THEN (IF x.b THEN 1 ELSE 0) ELSE x.n, LAMBDA n :
       IF n < 0 THEN Raise("ValueError", "factorial() not defined for negative values")
       ELSE IF n >= 1559 THEN HugeInt
       ELSE PyInt(Fact(n)))

\* byte i of the nonnegative m, least significant first
ByteOf(m, i) == IF i > 4 THEN 0 ELSE (m \div <<1, 256, 65536, 16777216>>[i]) % 256
\* the eight bytes of the int64 n
Int64Bytes(n) ==
  [i \in 1..8 |-> IF n >= 0 THEN ByteOf(n, i) ELSE 255 - ByteOf(0 - n - 1, i)]
\* the bits of f moved up by s places, taken modulo 256
Shifted(f, s) ==
  IF s >= 8 THEN 0
  ELSE IF s >= 0 THEN ((f % 256) * 2^s) % 256
  ELSE (f \div 2^(0 - s)) % 256
\* the exponent of the highest bit of a, a > 0
RECURSIVE Log2(_)
Log2(a) == IF a < 2 THEN 0 ELSE 1 + Log2(a \div 2)
\* the eight bytes of the float64 that equals n / 2^s
Float64Scaled(n, s) ==
  IF n = 0 THEN [i \in 1..8 |-> 0]
  ELSE LET a == IF n < 0 THEN 0 - n ELSE n
           e == Log2(a)
           f == a - 2^e
           E == 1023 + e - s
       IN [i \in 1..8 |->
             CASE i = 8 -> (IF n < 0 THEN 128 ELSE 0) + E \div 16
               [] i = 7 -> (E % 16) * 16 + (Shifted(f, 4 - e) % 16)
               [] OTHER -> Shifted(f, 52 - e - 8 * (i - 1))]
\* the eight bytes of the float64 that equals the int n
Float64Bytes(n) == Float64Scaled(n, 0)
\* the eight bytes of numpy.nan
NaNBytes == <<0, 0, 0, 0, 0, 0, 248, 127>>

IsPlainInt(v) == v.t = "int" /\ "n" \in DOMAIN v
IsListLike(v) == v.t \in {"list", "tuple"}

\* the array pandas keeps for a grid of cells, given as the sequence of
\* its rows: int64 when every cell is an int, bool when every cell is a
\* bool, float64 when the cells are ints, floats and None (None becomes
\* NaN) and not ints alone, or when there is no cell, and an array of
\* objects otherwise; the bytes of
\* an array of objects are the addresses of the cells, which no request
\* determines: they are given as zeros
cells_array(rows, cols, grid) ==
  LET size == rows * cols
      at(k) == grid[((k - 1) \div cols) + 1][((k - 1) % cols) + 1]
  IN IF size = 0 THEN NdArray("float64", <<rows, cols>>, <<>>)
     ELSE IF \A k \in 1..size : IsPlainInt(at(k))
     THEN NdArray("int64", <<rows, cols>>, Concat([k \in 1..size |-> Int64Bytes(at(k).n)]))
     ELSE IF \A k \in 1..size : at(k).t = "bool"
     THEN NdArray("bool_", <<rows, cols>>, [k \in 1..size |-> IF at(k).b THEN 1 ELSE 0])
     ELSE IF (\A k \in 1..size : IsPlainInt(at(k)) \/ at(k).t \in {"float", "none"})
             /\ (\E k \in 1..size : IsPlainInt(at(k)) \/ at(k).t = "float")
     THEN NdArray("float64", <<rows, cols>>,
                  Concat([k \in 1..size |->
                            CASE at(k).t = "none" -> NaNBytes
                              [] at(k).t = "float" -> Float64Scaled(at(k).q, 2)
                              [] OTHER -> Float64Bytes(at(k).n)]))
     ELSE NdArray("object_", <<rows, cols>>, [k \in 1..(8 * size) |-> 0])

\* the labels an index or columns argument gives, or the exception
labels_of(arg) ==
  CASE IsListLike(arg) -> Index(arg.items)
    [] arg.t = "dict" -> Index(arg.keys)
    [] OTHER -> Raise("TypeError", "Index(...) must be called with a collection")

\* the distinct entries of a sequence, in the order of their first place
Distinct(xs) ==
  SelectSeq([i \in 1..Len(xs) |-> [x |-> xs[i], first |-> \A j \in 1..(i - 1) : xs[j] # xs[i]]],
            LAMBDA e : e.first)

\* the frame pandas builds from data that is a list of rows, of records or
\* of single values, before the index and columns arguments are applied; a
\* short row is filled up with None
frame_of_list(items) ==
  LET n == Len(items) IN
  IF n > 0 /\ \A i \in 1..n : IsListLike(items[i])
  THEN LET m == CHOOSE w \in 0..64 :
                  /\ \A i \in 1..n : Len(items[i].items) <= w
                  /\ \E i \in 1..n : Len(items[i].items) = w
       IN DataFrame(RangeIndex(0, m, 1),
                    cells_array(n, m, [i \in 1..n |-> [j \in 1..m |->
                        IF j <= Len(items[i].items) THEN items[i].items[j] ELSE PyNone]]),
                    RangeIndex(0, n, 1))
  ELSE IF n > 0 /\ \A i \in 1..n : items[i].t = "dict"
  THEN LET found == Distinct(Concat([i \in 1..n |-> items[i].keys]))
           keys == [j \in 1..Len(found) |-> found[j].x]
       IN DataFrame(Index(keys),
                    cells_array(n, Len(keys), [i \in 1..n |-> [j \in 1..Len(keys) |->
                        Get(items[i], keys[j], PyNone)]]),
                    RangeIndex(0, n, 1))
  ELSE IF n = 0
  THEN DataFrame(RangeIndex(0, 0, 1), cells_array(0, 0, <<>>), RangeIndex(0, 0, 1))
  ELSE DataFrame(RangeIndex(0, 1, 1),
                 cells_array(n, 1, [i \in 1..n |-> <<items[i]>>]),
                 RangeIndex(0, n, 1))

\* the frame pandas builds from data that is a mapping from column labels
\* to columns: a single value is repeated down its column, over the rows
\* the index argument gives when every column is a single value
frame_of_dict(data, index) ==
  LET k == Len(data.keys)
      lists == {j \in 1..k : IsListLike(data.vals[j])}
  IN IF k = 0
     THEN DataFrame(RangeIndex(0, 0, 1), cells_array(0, 0, <<>>), RangeIndex(0, 0, 1))
     ELSE IF lists = {} /\ ~IsListLike(index)
     THEN Raise("ValueError", "If using all scalar values, you must pass an index")
     ELSE IF \E a \in lists, b \in lists :
                Len(data.vals[a].items) # Len(data.vals[b].items)
     THEN Raise("ValueError", "All arrays must be of the same length")
     ELSE LET n == IF lists = {} THEN Len(index.items)
                   ELSE Len(data.vals[CHOOSE j \in lists : TRUE].items)
          IN DataFrame(Index(data.keys),
                       cells_array(n, k, [i \in 1..n |-> [j \in 1..k |->
                           IF j \in lists THEN data.vals[j].items[i] ELSE data.vals[j]]]),
                       RangeIndex(0, n, 1))

\* the frame before the index and columns arguments are applied to it
frame_of(data, index, columns) ==
  CASE data.t = "ndarray" -> pd_DataFrame(data, PyNone)
    [] data.t = "DataFrame" -> data
    [] data.t = "Series" ->
         DataFrame(RangeIndex(0, 1, 1),
                   NdArray(data.values.dtype, <<Prod(data.values.shape), 1>>, data.values.raw),
                   RangeIndex(0, Prod(data.values.shape), 1))
    [] IsListLike(data) -> frame_of_list(data.items)
    [] data.t = "iterable" ->
         IF data.fails THEN Raise("Exception", "raised while iterating")
         ELSE frame_of_list(data.items)
    [] data.t = "dict" -> frame_of_dict(data, index)
    [] data.t = "none" ->
         Bind(IF index.t = "none" THEN Index(<<>>) ELSE labels_of(index), LAMBDA rows :
         Bind(IF columns.t = "none" THEN Index(<<>>) ELSE labels_of(columns), LAMBDA cols :
         IF IsRaise(rows) THEN rows ELSE IF IsRaise(cols) THEN cols
         ELSE LET r == Len(rows.entries)
                  c == Len(cols.entries)
              IN DataFrame(IF columns.t = "none" THEN RangeIndex(0, 0, 1) ELSE cols,
                           IF c = 0 THEN NdArray("float64", <<r, 0>>, <<>>)
                           ELSE NdArray("object_", <<r, c>>, [i \in 1..(8 * r * c) |-> 0]),
                           IF index.t = "none" THEN RangeIndex(0, 0, 1) ELSE rows)))
    [] OTHER ->
         IF index.t = "none" \/ columns.t = "none"
         THEN Raise("ValueError", "DataFrame constructor not properly called!")
         ELSE Bind(labels_of(index), LAMBDA rows :
              Bind(labels_of(columns), LAMBDA cols :
              IF IsRaise(rows) THEN rows ELSE IF IsRaise(cols) THEN cols
              ELSE LET r == Len(rows.entries)
                       c == Len(cols.entries)
                   IN DataFrame(cols,
                                cells_array(r, c, [i \in 1..r |-> [j \in 1..c |-> data]]),
                                rows)))

\* the columns argument applied to the frame: it selects among the columns
\* of a mapping or of records, and labels the columns of other data
with_columns(df, data, columns) ==
  Bind(labels_of(columns), LAMBDA cols :
  IF IsRaise(cols) THEN cols
  ELSE IF df.columns.t = "Index" /\ data.t \in {"dict", "list", "tuple", "iterable"}
  THEN LET c == Len(cols.entries)
           r == df.values.shape[1]
           w == df.values.shape[2]
           size == itemsize(df.values.dtype)
           place(j) == CHOOSE q \in 1..w : df.columns.entries[q] = cols.entries[j]
       IN IF \A j \in 1..c : \E q \in 1..w : df.columns.entries[q] = cols.entries[j]
          THEN [df EXCEPT !.columns = cols,
                          !.values = NdArray(df.values.dtype, <<r, c>>,
                             [b \in 1..(r * c * size) |->
                                df.values.raw[(((b - 1) \div size) \div c) * w * size
                                              + (place((((b - 1) \div size) % c) + 1) - 1) * size
                                              + ((b - 1) % size) + 1]])]
          ELSE [df EXCEPT !.columns = cols,
                          !.values = NdArray("object_", <<r, c>>, [b \in 1..(8 * r * c) |-> 0])]
  ELSE IF df.values.shape = <<0, 0>>
  THEN [df EXCEPT !.columns = cols,
                  !.values = NdArray("object_", <<0, Len(cols.entries)>>, <<>>)]
  ELSE IF Len(cols.entries) # df.values.shape[2]
  THEN Raise("ValueError", "Shape of passed values does not match indices")
  ELSE [df EXCEPT !.columns = cols])

\* the index argument applied to the frame
with_index(df, index) ==
  Bind(labels_of(index), LAMBDA rows :
  IF IsRaise(rows) THEN rows
  ELSE IF df.values.shape[1] = 0 /\ df.values.shape[2] = 0
  THEN [df EXCEPT !.index = rows,
                  !.values = NdArray(df.values.dtype, <<Len(rows.entries), 0>>, <<>>)]
  ELSE IF Len(rows.entries) # df.values.shape[1]
  THEN Raise("ValueError", "Shape of passed values does not match indices")
  ELSE [df EXCEPT !.index = rows])

\* the dtype argument: None and the name of the kind the values have leave
\* the frame as it is, a value that names no kind is refused; a
\* conversion to another kind is outside what is modelled
with_dtype(df, dtype) ==
  IF dtype.t = "none" THEN df
  ELSE IF dtype.t # "str" \/ ~\E i \in 1..Len(DTypeKinds) : dtype.s = <<DTypeKinds[i]>>
  THEN Raise("TypeError", "data type not understood")
  ELSE IF dtype.s = <<df.values.dtype>> THEN df
  ELSE Raise("ValueError", "conversion to another dtype")

\* the kinds of data whose frame takes the index and columns arguments as
\* labels; a frame given as data keeps its own
Collections == {"ndarray", "Series", "dict", "list", "tuple", "iterable"}

\* pandas.DataFrame(data, index, columns, dtype, copy)
new_DataFrame(data, index, columns, dtype) ==
  Bind(frame_of(data, index, columns), LAMBDA df :
  Bind(IF IsRaise(df) \/ columns.t = "none" \/ data.t \notin Collections
       THEN df ELSE with_columns(df, data, columns), LAMBDA named :
  Bind(IF IsRaise(named) \/ index.t = "none" \/ data.t \notin Collections
       THEN named ELSE with_index(named, index), LAMBDA placed :
  IF IsRaise(placed) THEN placed ELSE with_dtype(placed, dtype))))

\* import_module(name, package=None) called with pos and kw: whether the
\* arguments bind to the two parameters, and what they then are
\* the keyword names a parameter that a positional argument has filled
ImportIsBound(pos, key) ==
  \/ Len(pos) >= 1 /\ key = Lit("name")
  \/ Len(pos) >= 2 /\ key = Lit("package")
ImportCallBinds(pos, kw) ==
  /\ \A i \in 1..Len(kw.keys) :
        kw.keys[i] \in {Lit("name"), Lit("package")} /\ ~ImportIsBound(pos, kw.keys[i])
  /\ Len(pos) <= 2
  /\ Len(pos) >= 1 \/ HasKey(kw, Lit("name"))
ImportName(pos, kw) == IF Len(pos) >= 1 THEN pos[1] ELSE GetItem(kw, Lit("name"))
ImportPackage(pos, kw) == IF Len(pos) >= 2 THEN pos[2] ELSE Get(kw, Lit("package"), PyNone)

\* fn(*pos, **kw): what the callable does with the arguments it is given
apply(fn, pos, kw) ==
  LET n == Len(pos)
      named(k) == IF HasKey(kw, Lit(k)) THEN GetItem(kw, Lit(k)) ELSE PyNone
  IN CASE fn.name = "len" ->
            IF Len(kw.keys) > 0 THEN Raise("TypeError", "len() takes no keyword arguments")
            ELSE IF n # 1 THEN Raise("TypeError", "len() takes exactly one argument")
            ELSE py_len(pos[1])
       [] fn.name = "exit" ->
            IF Len(kw.keys) > 0 THEN Raise("TypeError", "sys.exit() takes no keyword arguments")
            ELSE IF n > 1 THEN Raise("TypeError", "exit expected at most 1 argument")
            ELSE Raise("SystemExit", "")
       [] fn.name = "copy" ->
            IF \E i \in 1..Len(kw.keys) : kw.keys[i] # Lit("x")
            THEN Raise("TypeError", "copy() got an unexpected keyword argument")
            ELSE IF n + Len(kw.keys) # 1
            THEN Raise("TypeError", "copy() takes 1 positional argument")
            ELSE IF n = 1 THEN pos[1] ELSE named("x")
       [] fn.name = "import_module" ->
            IF ImportCallBinds(pos, kw)
            THEN import_module(ImportName(pos, kw), ImportPackage(pos, kw))
            ELSE IF \E i \in 1..Len(kw.keys) : kw.keys[i] \notin {Lit("name"), Lit("package")}
                                              \/ ImportIsBound(pos, kw.keys[i])
            THEN Bind(CHOOSE i \in 1..Len(kw.keys) :
                        /\ kw.keys[i] \notin {Lit("name"), Lit("package")}
                           \/ ImportIsBound(pos, kw.keys[i])
                        /\ \A j \in 1..(i - 1) :
                              /\ kw.keys[j] \in {Lit("name"), Lit("package")}
                              /\ ~ImportIsBound(pos, kw.keys[j]), LAMBDA i :
                 IF ImportIsBound(pos, kw.keys[i])
                 THEN Raise("TypeError", "import_module() got multiple values for argument")
                 ELSE Raise("TypeError", "import_module() got an unexpected keyword argument"))
            ELSE IF n > 2
            THEN Raise("TypeError", "import_module() takes from 1 to 2 positional arguments")
            ELSE Raise("TypeError", "import_module() missing 1 required positional argument")
       [] fn.name = "factorial" ->
            IF Len(kw.keys) > 0
            THEN Raise("TypeError", "math.factorial() takes no keyword arguments")
            ELSE IF n # 1
            THEN Raise("TypeError", "math.factorial() takes exactly one argument")
            ELSE factorial(pos[1])
       [] fn.name = "DataFrame" ->
            LET params == <<"data", "index", "columns", "dtype", "copy">>
                arg(i) == IF n >= i THEN pos[i] ELSE named(params[i])
            IN IF \E i \in 1..Len(kw.keys) :
                    \A j \in 1..Len(params) : kw.keys[i] # Lit(params[j])
               THEN Raise("TypeError", "DataFrame() got an unexpected keyword argument")
               ELSE IF n > Len(params)
               THEN Raise("TypeError", "DataFrame() takes from 1 to 6 positional arguments")
               ELSE IF \E i \in 1..n : HasKey(kw, Lit(params[i]))
               THEN Raise("TypeError", "DataFrame() got multiple values for argument")
               ELSE new_DataFrame(arg(1), arg(2), arg(3), arg(4))

\* the modules fn(*pos, **kw) imports
imported_by(fn, pos, kw) ==
  IF fn.name = "import_module" /\ ImportCallBinds(pos, kw)
  THEN load(ImportName(pos, kw), ImportPackage(pos, kw)).loaded
  ELSE {}

\* a faulty variant of call that never passes the keyword arguments; the
\* invocation property must tell it from call
call_without_kwargs(fn, args, kwargs, starstar) ==
  Bind(star(args), LAMBDA pos :
  IF IsRaise(pos)
  THEN [result |-> pos, called |-> FALSE, pos |-> PyNone, kw |-> PyNone, loaded |-> {}]
  ELSE IF fn.t = "module"
  THEN [result |-> Raise("TypeError", "'module' object is not callable"),
        called |-> FALSE, pos |-> PyNone, kw |-> PyNone, loaded |-> {}]
  ELSE [result |-> apply(fn, pos.items, PyDict(<<>>, <<>>)), called |-> TRUE,
        pos |-> pos, kw |-> PyDict(<<>>, <<>>),
        loaded |-> imported_by(fn, pos.items, PyDict(<<>>, <<>>))])

\* fn(*args, **kwargs) when starstar, fn(*args) otherwise, line 197-200:
\* [result, called, pos, kw], called telling whether fn received the call;
\* the interpreter merges the ** mapping before it unpacks the * iterable
call(fn, args, kwargs, starstar) ==
  Bind(star(args), LAMBDA pos :
  Bind(IF starstar THEN kwargs ELSE PyDict(<<>>, <<>>), LAMBDA kw :
  IF kw.t # "dict"
  THEN [result |-> Raise("TypeError", "argument after ** must be a mapping"),
        called |-> FALSE, pos |-> PyNone, kw |-> PyNone, loaded |-> {}]
  ELSE IF IsRaise(pos)
  THEN [result |-> pos, called |-> FALSE, pos |-> PyNone, kw |-> PyNone, loaded |-> {}]
  ELSE IF fn.t = "module"
  THEN [result |-> Raise("TypeError", "'module' object is not callable"),
        called |-> FALSE, pos |-> PyNone, kw |-> PyNone, loaded |-> {}]
  ELSE [result |-> apply(fn, pos.items, kw), called |-> TRUE, pos |-> pos, kw |-> kw,
        loaded |-> imported_by(fn, pos.items, kw)]))

---------------------------------------------------------------------------
(* main: one pass of the loop body, line 159-220 *)

\* isinstance(e, cls) for the classes the except clauses name
IsInstance(e, cls) ==
  CASE cls = "ImportError" -> e.exc \in {"ImportError", "ModuleNotFoundError"}
    [] cls = "ValueError" -> e.exc \in {"ValueError", "binascii.Error", "JSONDecodeError"}
    [] cls = "Exception" -> e.exc \notin {"SystemExit", "KeyboardInterrupt", "GeneratorExit"}
    [] OTHER -> e.exc = cls

Ok(v) == PyDict(<<Lit("ok")>>, <<v>>)
\* a faulty variant of Err that also sets ok; the envelope property must
\* tell it from Err
ErrWithOk(s) == PyDict(<<Lit("ok"), Lit("error")>>, <<PyNone, PyStr(s)>>)
Err(s) == PyDict(<<Lit("error")>>, <<PyStr(s)>>)

\* line 190
MissingResponse == Err(<<"missing m or f">>)
\* line 170
PingResponse == Ok(Lit("pong"))
\* sys.version_info[:2] of the interpreter that runs the bridge
version_info == PyTuple(<<PyInt(3), PyInt(11)>>)
\* line 174-180
HealthResponse ==
  Ok(PyDict(<<Lit("ok"), Lit("numpy"), Lit("pandas"), Lit("python_version")>>,
            <<PyBool(TRUE), PyBool(NUMPY_AVAILABLE), PyBool(PANDAS_AVAILABLE), version_info>>))
\* line 156
ReadyLine ==
  PyDict(<<Lit("ready"), Lit("numpy"), Lit("pandas")>>,
         <<PyBool(TRUE), PyBool(NUMPY_AVAILABLE), PyBool(PANDAS_AVAILABLE)>>)

\* key in req, line 167
Contains(req, key) ==
  CASE req.t = "dict" -> PyBool(HasKey(req, key))
    [] req.t \in {"list", "tuple"} -> PyBool(\E i \in 1..Len(req.items) : req.items[i] = key)
    [] req.t = "str" ->
         PyBool(\E i \in 1..Len(req.s) :
                   /\ i + Len(key.s) - 1 <= Len(req.s)
                   /\ SubSeq(req.s, i, i + Len(key.s) - 1) = key.s)
    [] OTHER -> Raise("TypeError", "argument is not iterable")

\* what one pass did besides answering: whether wire_to_python ran, whether
\* import_module ran, whether the callable received a call, with what, what
\* the call produced, the exception raised inside the inner try, if any,
\* and the modules the pass imported
Absent == [t |-> "absent"]
Trace(decoded, imported, called, pos, kw, result, failure, loaded) ==
  [decoded |-> decoded, imported |-> imported, called |-> called, pos |-> pos,
   kw |-> kw, result |-> result, failure |-> failure, loaded |-> loaded]
NoTrace == Trace(FALSE, FALSE, FALSE, PyNone, PyNone, Absent, PyNone, {})
Decoded == Trace(TRUE, FALSE, FALSE, PyNone, PyNone, Absent, PyNone, {})

\* the except clauses of the inner try, line 203-213: the response, or the
\* exception itself when no clause catches it
inner_except(e, mod_name, func_name) ==
  IF IsInstance(e, "ImportError")
  THEN Bind(py_str(mod_name), LAMBDA m :
       IF IsRaise(m) THEN m ELSE Err(<<"Module not found: ">> \o m.s \o <<" - ", e.msg>>))
  ELSE IF IsInstance(e, "AttributeError")
  THEN Bind(py_str(func_name), LAMBDA f :
       Bind(IF IsRaise(f) THEN f ELSE py_str(mod_name), LAMBDA m :
       IF IsRaise(m) THEN m
       ELSE Err(<<"Function not found: ">> \o f.s \o <<" in ">> \o m.s \o <<" - ", e.msg>>)))
  ELSE IF IsInstance(e, "TypeError") THEN Err(<<"Type error: ", e.msg>>)
  ELSE IF IsInstance(e, "ValueError") THEN Err(<<"Value error: ", e.msg>>)
  ELSE IF IsInstance(e, "Exception") THEN Err(<<e.exc, ": ", e.msg>>)
  ELSE e

\* the inner try, line 192-213: [out, trace]
invoke(mod_name, func_name, args, kwargs) ==
  Bind(load(mod_name, PyNone), LAMBDA imp :
  Bind(IF IsRaise(imp.result) THEN imp.result ELSE py_getattr(imp.result, func_name),
       LAMBDA fn :
  Bind(IF IsRaise(fn) THEN fn ELSE truth(kwargs), LAMBDA test :
  Bind(IF IsRaise(test)
       THEN [result |-> test, called |-> FALSE, pos |-> PyNone, kw |-> PyNone, loaded |-> {}]
       ELSE call(fn, args, kwargs, test.b), LAMBDA done :
  Bind(IF IsRaise(done.result) THEN done.result ELSE python_to_wire(done.result),
       LAMBDA wire :
  [out |-> IF IsRaise(wire) THEN inner_except(wire, mod_name, func_name) ELSE Ok(wire),
   trace |-> Trace(TRUE, TRUE, done.called, done.pos, done.kw,
                   IF done.called THEN done.result ELSE Absent,
                   IF IsRaise(wire) THEN wire ELSE PyNone,
                   imp.loaded \cup done.loaded)])))))

\* line 184-213 for a request that is no control command: [out, trace],
\* out an exception when one leaves the inner try or is raised before it
dispatch(req) ==
  IF req.t # "dict"
  THEN [out |-> Raise("AttributeError", "object has no attribute 'get'"), trace |-> NoTrace]
  ELSE Bind(Get(req, Lit("m"), PyStr(<<>>)), LAMBDA mod_name :
       Bind(Get(req, Lit("f"), PyStr(<<>>)), LAMBDA func_name :
       Bind(wire_to_python(Get(req, Lit("a"), PyList(<<>>))), LAMBDA args :
       Bind(IF IsRaise(args) THEN args
            ELSE wire_to_python(Get(req, Lit("k"), PyDict(<<>>, <<>>))), LAMBDA kwargs :
       IF IsRaise(kwargs)
       THEN [out |-> kwargs, trace |-> Decoded]
       ELSE IF ~Truthy(mod_name) \/ ~Truthy(func_name)
       THEN [out |-> MissingResponse, trace |-> Decoded]
       ELSE invoke(mod_name, func_name, args, kwargs)))))

\* a faulty variant of try_body that answers a control command directly only
\* when the envelope names no module; the control property must tell it
\* from try_body
try_body_unless_module(line) ==
  Bind(json_loads(line), LAMBDA req :
  IF IsRaise(req) THEN [direct |-> FALSE, out |-> req, trace |-> NoTrace]
  ELSE IF req.t = "dict" /\ ~HasKey(req, Lit("m")) /\ Get(req, Lit("cmd"), PyNone) = Lit("ping")
  THEN [direct |-> TRUE, out |-> PingResponse, trace |-> NoTrace]
  ELSE IF req.t = "dict" /\ ~HasKey(req, Lit("m")) /\ Get(req, Lit("cmd"), PyNone) = Lit("health")
  THEN [direct |-> TRUE, out |-> HealthResponse, trace |-> NoTrace]
  ELSE Bind(dispatch(req), LAMBDA d :
       [direct |-> FALSE, out |-> d.out, trace |-> d.trace]))

\* the body of the outer try, line 164-213: [direct, out, trace], direct
\* when the answer is written by the control branch, which then continues
try_body(line) ==
  Bind(json_loads(line), LAMBDA req :
  Bind(IF IsRaise(req) THEN req ELSE Contains(req, Lit("cmd")), LAMBDA has :
  Bind(IF IsRaise(has) THEN has
       ELSE IF has.b THEN Subscript(req, Lit("cmd")) ELSE PyNone, LAMBDA cmd :
  IF IsRaise(cmd) THEN [direct |-> FALSE, out |-> cmd, trace |-> NoTrace]
  ELSE IF has.b /\ cmd = Lit("ping")
  THEN [direct |-> TRUE, out |-> PingResponse, trace |-> NoTrace]
  ELSE IF has.b /\ cmd = Lit("health")
  THEN [direct |-> TRUE, out |-> HealthResponse, trace |-> NoTrace]
  ELSE Bind(dispatch(req), LAMBDA d :
       [direct |-> FALSE, out |-> d.out, trace |-> d.trace]))))

\* the except clauses of the outer try, line 214-217
outer_except(e) ==
  IF IsInstance(e, "JSONDecodeError") THEN Err(<<"Invalid JSON: ", e.msg>>)
  ELSE IF IsInstance(e, "Exception") THEN Err(<<"Bridge error: ", e.msg>>)
  ELSE e

\* sys.stdout.write(json.dumps(out) + "\n"); sys.stdout.flush():
\* the document written, or the exception raised
write(out) ==
  Bind(json_dumps(out), LAMBDA text :
  IF IsRaise(text) THEN text
  ELSE IF ~stdout_open THEN Raise("BrokenPipeError", "Broken pipe")
  ELSE text)

\* one pass of the loop for a line, line 160-220:
\* [written, exc, trace], exc the exception that leaves main, if any
main_line(line) ==
  IF line.raw = "blank"
  THEN [written |-> <<>>, exc |-> PyNone, trace |-> NoTrace]
  ELSE Bind(try_body(line), LAMBDA body :
       Bind(IF body.direct THEN write(body.out) ELSE PyNone, LAMBDA sent :
       Bind(IF body.direct THEN sent ELSE body.out, LAMBDA raised :
       Bind(IF IsRaise(raised) THEN outer_except(raised) ELSE body.out, LAMBDA out :
       Bind(IF IsRaise(out) THEN out ELSE write(out), LAMBDA final :
       IF body.direct /\ ~IsRaise(sent)
       THEN [written |-> <<sent>>, exc |-> PyNone, trace |-> body.trace]
       ELSE IF IsRaise(final)
       THEN [written |-> <<>>, exc |-> final, trace |-> body.trace]
       ELSE [written |-> <<final>>, exc |-> PyNone, trace |-> body.trace])))))

---------------------------------------------------------------------------
(* the input lines *)

\* how many lines a run reads
MaxLines == 2

JsonLine(doc) == [raw |-> "json", doc |-> doc]
BlankLine == [raw |-> "blank", doc |-> PyNone]
InvalidLine == [raw |-> "invalid", doc |-> PyNone]
NoLine == [raw |-> "none", doc |-> PyNone]

Env(keys, vals) == PyDict([i \in 1..Len(keys) |-> Lit(keys[i])], vals)
Ints(ns) == PyList([i \in 1..Len(ns) |-> PyInt(ns[i])])

BytesWire(text) == Env(<<"__bytes__">>, <<text>>)
ArrayInfo(tag, shape, data) ==
  Env(<<"dtype", "shape", "data">>, <<Lit(tag), Ints(shape), PyStr(data)>>)
ArrayWire(info) == Env(<<"__numpy_array__">>, <<info>>)
FrameWire(columns, info, index) ==
  Env(<<"__pandas_df__">>, <<Env(<<"columns", "data", "index">>, <<columns, info, index>>)>>)

B64One == PyStr(<<"A", "Q", "=", "=">>)
B64Bad == PyStr(<<"A">>)
\* the base64 text of the bytes of the name sys
B64Sys == PyStr(<<"c", "3", "l", "z">>)
\* base64 text followed by a character outside ASCII
B64NonAscii == PyStr(<<"A", "Q", "=", "=", "U+00E9">>)
Vector == ArrayInfo("u8", <<2>>, <<"A", "Q", "I", "=">>)
Scalar == ArrayInfo("u8", <<>>, <<"A", "Q", "=", "=">>)
Matrix == ArrayInfo("u8", <<2, 1>>, <<"A", "Q", "I", "=">>)
Ragged == ArrayInfo("i32", <<1>>, <<"A", "Q", "=", "=">>)

\* values of the field a
ArgsOk ==
  { PyList(<<Ints(<<1, 2>>)>>),
    PyList(<<ArrayWire(Vector)>>),
    PyList(<<Env(<<"__bytes__", "x">>, <<B64One, BytesWire(B64Bad)>>)>>),
    PyList(<<Env(<<"x", "__numpy_array__">>, <<PyInt(1), Vector>>)>>) }
ArgsMalformed ==
  { PyList(<<BytesWire(B64Bad)>>),
    PyList(<<BytesWire(B64NonAscii)>>),
    PyList(<<BytesWire(PyInt(5))>>),
    PyList(<<ArrayWire(Ragged)>>),
    PyList(<<ArrayWire(PyInt(5))>>) }
ArgsWrongType == { PyStr(<<"x">>), Env(<<"x">>, <<PyInt(1)>>), PyInt(5) }
KwargsOk == { Env(<<>>, <<>>), Env(<<"x">>, <<PyInt(1)>>) }
KwargsWrongType ==
  { PyInt(0), Ints(<<1>>),
    ArrayWire(ArrayInfo("u8", <<1>>, <<"A", "A", "=", "=">>)) }

\* a request naming m and f; a and k are left out when given as NoField
NoField == Absent
Request(m, f, a, k) ==
  LET mf == Env(<<"m", "f">>, <<m, f>>)
      ma == IF a = NoField THEN mf ELSE SetItem(mf, Lit("a"), a)
  IN IF k = NoField THEN ma ELSE SetItem(ma, Lit("k"), k)

\* opening brackets beyond the recursion limit, never closed
NestedLine == [raw |-> "invalid", doc |-> Deep]
\* a request whose argument is an int literal of more than 4300 digits
OverlongLine ==
  JsonLine(Env(<<"m", "f", "a">>, <<Lit("builtins"), Lit("len"), PyList(<<HugeInt>>)>>))

Calls ==
  { Request(Lit("builtins"), Lit("len"), a, NoField) :
      a \in ArgsOk \cup ArgsMalformed \cup ArgsWrongType \cup {NoField} }
  \cup { Request(Lit("builtins"), Lit("len"), PyList(<<Ints(<<1, 2>>)>>), k) :
           k \in KwargsOk \cup KwargsWrongType }
  \cup { Request(Lit("builtins"), Lit("len"), PyInt(5), Ints(<<1>>)) }
  \cup { Request(Lit("sys"), Lit("exit"), NoField, NoField) }
  \cup { Request(Lit("copy"), Lit("copy"), a, NoField) :
           a \in { PyList(<<BytesWire(B64One)>>),
                   PyList(<<ArrayWire(Vector)>>),
                   PyList(<<FrameWire(PyList(<<Lit("c")>>), Matrix, PyNone)>>),
                   PyList(<<FrameWire(PyList(<<Lit("c")>>), Matrix, Ints(<<7, 8>>))>>) } }
  \cup { Request(Lit("math"), Lit("factorial"), Ints(<<2000>>), NoField) }
  \cup { Request(Lit("importlib"), Lit("import_module"), PyList(<<name>>), NoField) :
           name \in {Lit("nosuch"), Lit("sys"), PyInt(5), BytesWire(B64Sys)} }
  \cup { Request(Lit("importlib"), Lit("import_module"),
                 PyList(<<PyStr(<<".", "dom">>), Lit("xml")>>), NoField),
         Request(Lit("importlib"), Lit("import_module"), NoField,
                 Env(<<"name", "package">>, <<PyStr(<<".", "dom">>), Lit("xml")>>)) }
  \cup { Request(Lit("copy"), Lit("copy"), NoField, Env(<<"x">>, <<BytesWire(B64One)>>)) }
  \cup { Request(Lit("pandas"), Lit("DataFrame"), a, NoField) :
           a \in { PyList(<<Ints(<<1, 2>>)>>),
                   PyList(<<ArrayWire(Matrix), PyList(<<BytesWire(B64One), PyInt(2)>>)>>) } }
  \cup { Request(Lit("pandas"), Lit("DataFrame"), PyList(<<ArrayWire(Matrix)>>),
                 Env(<<"index">>, <<Ints(<<7, 8>>)>>)) }

Unresolvable ==
  { Request(Lit("nosuch"), Lit("x"), NoField, NoField),
    Request(Lit("builtins"), Lit("nosuch"), NoField, NoField),
    Request(PyInt(5), Lit("len"), NoField, NoField),
    Request(Lit("builtins"), PyInt(5), NoField, NoField),
    Request(Lit("xml"), Lit("dom"), NoField, NoField),
    Request(PyStr(Dotted("xml.dom")), Lit("nosuch"), NoField, NoField),
    Request(PyStr(<<".", "x">>), Lit("y"), NoField, NoField) }

MissingMF ==
  { Env(<<>>, <<>>),
    Env(<<"m">>, <<Lit("builtins")>>),
    Env(<<"m", "f">>, <<PyStr(<<>>), Lit("len")>>),
    Env(<<"cmd">>, <<Lit("other")>>),
    Env(<<"f", "a">>, <<Lit("len"), PyList(<<BytesWire(B64Bad)>>)>>),
    Env(<<"m", "k">>, <<Lit("builtins"), Env(<<"x">>, <<ArrayWire(Ragged)>>)>>) }

Controls ==
  { Env(<<"cmd">>, <<Lit(c)>>) : c \in {"ping", "health"} }
  \cup { Env(<<"cmd", "m", "f", "a">>,
             <<Lit("ping"), Lit("sys"), Lit("exit"), PyList(<<BytesWire(B64Bad)>>)>>) }
  \cup { Env(<<"m", "f", "a", "cmd">>,
             <<Lit("builtins"), Lit("len"), PyList(<<Ints(<<1, 2>>)>>), Lit("other")>>) }

NonObjects ==
  { Ints(<<1, 2>>), Lit("cmd"), PyStr(<<"x">>), PyInt(5), PyList(<<Lit("cmd")>>) }

Lines ==
  {BlankLine, InvalidLine, NestedLine, OverlongLine}
  \cup { JsonLine(d) : d \in Calls \cup Unresolvable \cup MissingMF \cup Controls \cup NonObjects }

---------------------------------------------------------------------------
(* the dispatch loop *)

Configs == {<<FALSE, FALSE>>, <<TRUE, FALSE>>, <<TRUE, TRUE>>}

Init ==
  /\ \E c \in Configs : NUMPY_AVAILABLE = c[1] /\ PANDAS_AVAILABLE = c[2]
  /\ pc = "start"
  /\ stdout = <<>>
  /\ stdout_open = TRUE
  /\ uncaught = PyNone
  /\ nread = 0
  /\ last = [line |-> NoLine, written |-> <<>>, trace |-> NoTrace]
  /\ sys_modules = {}
  /\ codec_op = "none"
  /\ codec_in = PyNone
  /\ codec_out = PyNone

codec_vars == <<codec_op, codec_in, codec_out>>
flags == <<NUMPY_AVAILABLE, PANDAS_AVAILABLE>>

\* a faulty variant of Start that enters the loop without writing the
\* readiness line; the readiness property must tell it from Start
StartSilent ==
  /\ pc = "start"
  /\ pc' = "loop"
  /\ UNCHANGED <<flags, stdout, stdout_open, uncaught, nread, last, sys_modules, codec_vars>>

\* line 155-157
Start ==
  /\ pc = "start"
  /\ \E w \in {write(ReadyLine)} :
        IF IsRaise(w)
        THEN pc' = "crashed" /\ uncaught' = w /\ UNCHANGED stdout
        ELSE pc' = "loop" /\ stdout' = <<w>> /\ UNCHANGED uncaught
  /\ UNCHANGED <<flags, stdout_open, nread, last, sys_modules, codec_vars>>

\* the submodules a pass over one line leaves in sys.modules: those line
\* 193 imported and those the callable imported
Loaded(line, r) == Submodules \cap r.trace.loaded

\* a faulty variant of ReadLine that holds a response back and writes it
\* only when the next line has been read; the ordering property must tell
\* it from ReadLine
ReadLineBuffered ==
  /\ pc = "loop"
  /\ nread < MaxLines
  /\ \E line \in Lines :
       \E r \in {main_line(line)} :
          /\ last' = [line |-> line, written |-> r.written, trace |-> r.trace]
          /\ stdout' = stdout \o last.written
          /\ uncaught' = r.exc
          /\ pc' = IF IsRaise(r.exc) THEN "crashed" ELSE "loop"
          /\ sys_modules' = sys_modules \cup Loaded(line, r)
  /\ nread' = nread + 1
  /\ UNCHANGED <<flags, stdout_open, codec_vars>>

\* line 159-220 for one line
ReadLine ==
  /\ pc = "loop"
  /\ nread < MaxLines
  /\ \E line \in Lines :
       \E r \in {main_line(line)} :
          /\ last' = [line |-> line, written |-> r.written, trace |-> r.trace]
          /\ stdout' = stdout \o r.written
          /\ uncaught' = r.exc
          /\ pc' = IF IsRaise(r.exc) THEN "crashed" ELSE "loop"
          /\ sys_modules' = sys_modules \cup Loaded(line, r)
  /\ nread' = nread + 1
  /\ UNCHANGED <<flags, stdout_open, codec_vars>>

\* line 159: the input ends
Eof ==
  /\ pc = "loop"
  /\ pc' = "eof"
  /\ UNCHANGED <<flags, stdout, stdout_open, uncaught, nread, last, sys_modules, codec_vars>>

\* the reader of the output stream goes away
ClosePipe ==
  /\ pc \in {"start", "loop"}
  /\ stdout_open
  /\ stdout_open' = FALSE
  /\ UNCHANGED <<flags, pc, stdout, uncaught, nread, last, sys_modules, codec_vars>>

Next == Start \/ ReadLine \/ Eof \/ ClosePipe

Spec == Init /\ [][Next]_vars

---------------------------------------------------------------------------
(* the codec on its own: one application of an operation to one operand *)

\* the largest number of dimensions, and the largest dimension, of an array
MaxRank == 2
MaxDim == 2

RECURSIVE Shapes(_)
Shapes(rank) ==
  IF rank = 0 THEN {<<>>}
  ELSE Shapes(rank - 1)
       \cup {Append(sh, d) : sh \in {x \in Shapes(rank - 1) : Len(x) = rank - 1}, d \in 0..MaxDim}

\* the bytes of an array of n elements: a fixed pattern over all byte values
RawBytes(n) == [i \in 1..n |-> (i * 83 + 172) % 256]
ArrayOf(dtype, shape) == NdArray(dtype, shape, RawBytes(Prod(shape) * itemsize(dtype)))

Blobs == {PyBytes(<<>>), PyBytes(<<1>>), PyBytes(<<255, 0>>), PyBytes(<<1, 2, 3>>),
          PyBytes(<<250, 251, 252, 253>>)}
Scalars == {PyNone, PyBool(TRUE), PyBool(FALSE), PyInt(0), PyInt(7), PyFloat(6), PyStr(<<>>),
            PyStr(<<"x">>), PyStr(<<"A", "Q", "=", "=">>)}
Arrays == {ArrayOf(DTypeKinds[i], sh) : i \in 1..Len(DTypeKinds), sh \in Shapes(MaxRank)}
\* frames over a two-dimensional array, with the implicit or an explicit index
Frames ==
  UNION { LET values == ArrayOf(dt, <<r, c>>)
              columns == Index([i \in 1..c |-> PyStr(<<Digit(i)>>)])
          IN { DataFrame(columns, values, RangeIndex(0, r, 1)),
               DataFrame(columns, values, Index([i \in 1..r |-> PyInt(i + 6)])),
               DataFrame(columns, values, Index([i \in 1..r |-> PyStr(<<Digit(i)>>)])) }
          : dt \in {"uint8", "int64", "float32"}, r \in 0..MaxDim, c \in 1..MaxDim }

\* containers over a set of leaves
Containers(leaves) ==
  {PyList(<<>>), PyDict(<<>>, <<>>)}
  \cup {PyList(<<v>>) : v \in leaves}
  \cup {PyList(<<PyInt(1), v>>) : v \in leaves}
  \cup {PyDict(<<Lit("k")>>, <<v>>) : v \in leaves}
  \cup {PyDict(<<Lit("k"), Lit("n")>>, <<PyList(<<v>>), PyInt(1)>>) : v \in leaves}

\* the Extended Values of the running instance
Leaves ==
  Scalars \cup Blobs
  \cup (IF NUMPY_AVAILABLE THEN Arrays ELSE {})
  \cup (IF PANDAS_AVAILABLE THEN Frames ELSE {})
ExtendedValues == Leaves \cup Containers(Leaves)

\* further values a callable can return
Returned ==
  { PyTuple(<<PyInt(1), PyBytes(<<1>>)>>),
    PyDict(<<PyInt(1), Lit("1")>>, <<PyInt(7), PyInt(8)>>),
    PyDict(<<PyFloat(6), PyFloat(10)>>, <<Lit("a"), Lit("b")>>),
    PyDict(<<PyTuple(<<PyStr(<<"U+00A0">>)>>)>>, <<PyInt(1)>>),
    PyDict(<<PyTuple(<<HugeInt>>)>>, <<PyInt(1)>>),
    Iterable(<<PyInt(0), PyInt(1)>>, FALSE, <<"range(0, 2)">>),
    Iterable(<<PyInt(0)>>, TRUE, <<"<generator object>">>),
    Object(<<"(1+2j)">>) }
  \cup (IF NUMPY_AVAILABLE
        THEN {ArrayOf("bool_", <<2>>), ArrayOf("complex128", <<1>>)} ELSE {})
  \cup (IF PANDAS_AVAILABLE
        THEN { Series(ArrayOf("int64", <<2>>)),
               DataFrame(RangeIndex(0, 1, 1), ArrayOf("uint8", <<2, 1>>), RangeIndex(1, 3, 1)),
               DataFrame(Index(<<Lit("c")>>), ArrayOf("uint8", <<2, 1>>),
                         Index(<<PyBytes(<<1>>), PyInt(2)>>)),
               DataFrame(Index(<<PyBytes(<<1>>)>>), ArrayOf("uint8", <<2, 1>>),
                         RangeIndex(0, 2, 1)),
               DataFrame(Index(<<Lit("c")>>), ArrayOf("uint8", <<1, 1>>),
                         Index(<<Object(<<"2020-01-01 00:00:00">>)>>)) }
        ELSE {})

\* wire mappings that hold marker keys: every way of choosing a value, or
\* none, for each of the three marker keys and for one other key
Choices(key, values) == {<<>>} \cup {<<<<Lit(key), v>>>> : v \in values}
FrameInfo(index) == Env(<<"columns", "data", "index">>, <<PyList(<<Lit("c")>>), Matrix, index>>)
MarkerMappings ==
  { PyDict([i \in 1..Len(kv) |-> kv[i][1]], [i \in 1..Len(kv) |-> kv[i][2]]) :
      kv \in { x \o n \o p \o b :
                 x \in Choices("x", {PyInt(1), BytesWire(B64One), BytesWire(B64Bad)}),
                 n \in Choices("__numpy_array__", {Vector, Scalar, Ragged}),
                 p \in Choices("__pandas_df__", {FrameInfo(PyNone), FrameInfo(Ints(<<7, 8>>))}),
                 b \in Choices("__bytes__", {B64One, B64Bad, B64NonAscii, PyInt(5)}) } }
WireInputs == MarkerMappings \cup {PyList(<<m>>) : m \in MarkerMappings}

Encode ==
  /\ codec_op = "none"
  /\ \E v \in ExtendedValues \cup Returned :
       /\ codec_in' = v
       /\ codec_out' = python_to_wire(v)
  /\ codec_op' = "encode"
  /\ UNCHANGED <<flags, pc, stdout, stdout_open, uncaught, nread, last, sys_modules>>

Decode ==
  /\ codec_op = "none"
  /\ \E w \in WireInputs :
       /\ codec_in' = w
       /\ codec_out' = wire_to_python(w)
  /\ codec_op' = "decode"
  /\ UNCHANGED <<flags, pc, stdout, stdout_open, uncaught, nread, last, sys_modules>>

RoundTrip ==
  /\ codec_op = "none"
  /\ \E v \in ExtendedValues :
       /\ codec_in' = v
       /\ codec_out' = wire_to_python(python_to_wire(v))
  /\ codec_op' = "roundtrip"
  /\ UNCHANGED <<flags, pc, stdout, stdout_open, uncaught, nread, last, sys_modules>>

CodecNext == Encode \/ Decode \/ RoundTrip

CodecSpec == Init /\ [][CodecNext]_vars

---------------------------------------------------------------------------
(* vocabulary of the properties *)

IsObject(line) == line.raw = "json" /\ line.doc.t = "dict" /\ ~IsRaise(json_loads(line))
\* the line is an envelope whose cmd is c
ControlLine(line, c) ==
  /\ line.raw = "json" /\ line.doc.t = "dict"
  /\ HasKey(line.doc, Lit("cmd")) /\ GetItem(line.doc, Lit("cmd")) = Lit(c)
  /\ ~IsRaise(json_loads(line))
IsControl(line) == ControlLine(line, "ping") \/ ControlLine(line, "health")

IsErrorResponse(r) == r.t = "dict" /\ r.keys = <<Lit("error")>> /\ r.vals[1].t = "str"
IsOkResponse(r) == r.t = "dict" /\ r.keys = <<Lit("ok")>>

\* a field of the envelope holds a value of the wrong type
WrongFieldType(doc) ==
  \/ HasKey(doc, Lit("m")) /\ GetItem(doc, Lit("m")).t # "str"
  \/ HasKey(doc, Lit("f")) /\ GetItem(doc, Lit("f")).t # "str"
  \/ HasKey(doc, Lit("a")) /\ GetItem(doc, Lit("a")).t # "list"
  \/ HasKey(doc, Lit("k")) /\ GetItem(doc, Lit("k")).t # "dict"
\* the envelope names a module that cannot be imported, or a function the
\* module does not have
UnknownTarget(doc) ==
  /\ HasKey(doc, Lit("m")) /\ HasKey(doc, Lit("f"))
  /\ Truthy(GetItem(doc, Lit("m"))) /\ Truthy(GetItem(doc, Lit("f")))
  /\ \/ IsRaise(import_module(GetItem(doc, Lit("m")), PyNone))
     \/ IsRaise(py_getattr(import_module(GetItem(doc, Lit("m")), PyNone), GetItem(doc, Lit("f"))))
Malformed(line) ==
  \/ line.raw \in {"json", "invalid"} /\ IsRaise(json_loads(line))
  \/ line.raw = "json" /\ line.doc.t # "dict"
  \/ IsObject(line) /\ ~IsControl(line)
       /\ (WrongFieldType(line.doc) \/ UnknownTarget(line.doc))

\* v holds, at any depth, a mapping with the key
RECURSIVE HasMarker(_, _)
HasMarker(v, key) ==
  CASE v.t = "dict" ->
         HasKey(v, key) \/ \E i \in 1..Len(v.vals) : HasMarker(v.vals[i], key)
    [] v.t = "list" -> \E i \in 1..Len(v.items) : HasMarker(v.items[i], key)
    [] OTHER -> FALSE
\* the arguments hold a marker of a capability the instance lacks
UnsupportedMarker(doc) ==
  \E field \in {Get(doc, Lit("a"), PyNone), Get(doc, Lit("k"), PyNone)} :
     \/ ~NUMPY_AVAILABLE /\ HasMarker(field, Lit("__numpy_array__"))
     \/ ~PANDAS_AVAILABLE /\ HasMarker(field, Lit("__pandas_df__"))

\* equality of Extended Values: frames by their columns, index and values
RECURSIVE ObsEqual(_, _)
ObsEqual(v, w) ==
  IF v.t # w.t THEN FALSE
  ELSE CASE v.t = "DataFrame" ->
              /\ index_list(v.columns) = index_list(w.columns)
              /\ index_list(v.index) = index_list(w.index)
              /\ v.values = w.values
         [] v.t = "list" ->
              /\ Len(v.items) = Len(w.items)
              /\ \A i \in 1..Len(v.items) : ObsEqual(v.items[i], w.items[i])
         [] v.t = "dict" ->
              /\ v.keys = w.keys
              /\ \A i \in 1..Len(v.vals) : ObsEqual(v.vals[i], w.vals[i])
         [] OTHER -> v = w

MarkerKeys == {Lit("__bytes__"), Lit("__numpy_array__"), Lit("__pandas_df__")}
Markers(d) == {i \in 1..Len(d.keys) : d.keys[i] \in MarkerKeys}
\* a mapping with one marker key and at least one other key
OneMarkerWithExtras(d) ==
  d.t = "dict" /\ Cardinality(Markers(d)) = 1 /\ Len(d.keys) > 1
\* the same mapping without its other keys
MarkerOnly(d) ==
  LET i == CHOOSE i \in Markers(d) : TRUE IN PyDict(<<d.keys[i]>>, <<d.vals[i]>>)

---------------------------------------------------------------------------
(* properties of the dispatch loop, under Spec *)

\* C1: a malformed input line (invalid JSON, a JSON value that is no object,
\* an envelope field of the wrong type, an unknown module or function) gets
\* exactly one response line, an error response, and the loop goes on.
C1_MalformedGetsOneError ==
  (stdout_open /\ Malformed(last.line)) =>
     /\ Len(last.written) = 1
     /\ IsErrorResponse(last.written[1])
     /\ pc # "crashed"

\* C2: whatever the callable or the resolution raises during a request, an
\* exit request included, is answered by one error line and the loop keeps
\* running; only the end of input or a failure of the transport ends it.
C2_EveryFailureAnswered ==
  (stdout_open /\ IsRaise(last.trace.failure)) =>
     /\ Len(last.written) = 1
     /\ IsErrorResponse(last.written[1])
     /\ pc # "crashed"

\* C3: every line written after the readiness line is an object with exactly
\* one of the keys ok and error, and the value under error is a string.
C3_ResponseEnvelope ==
  \A i \in 2..Len(stdout) :
     /\ stdout[i].t = "dict"
     /\ \/ stdout[i].keys = <<Lit("ok")>>
        \/ stdout[i].keys = <<Lit("error")>> /\ stdout[i].vals[1].t = "str"

\* an ok answer and an error answer have both been written
C3_Witness ==
  /\ Len(stdout) >= 3
  /\ \E i \in 2..Len(stdout) : IsOkResponse(stdout[i]) /\ last.trace.called
  /\ \E i \in 2..Len(stdout) : IsErrorResponse(stdout[i])

\* C4: a request whose arguments hold a __numpy_array__ marker while array
\* support is off, or a __pandas_df__ marker while tabular support is off, is
\* answered by an error, and the callable is not called.
C4_UnsupportedMarkerRefused ==
  (stdout_open /\ IsObject(last.line) /\ ~IsControl(last.line)
     /\ UnsupportedMarker(last.line.doc)) =>
     /\ Len(last.written) = 1
     /\ IsErrorResponse(last.written[1])
     /\ ~last.trace.called

\* C5: an envelope whose cmd is ping or health, whatever else it carries, is
\* answered directly (pong; the capability flags and the runtime version)
\* with no argument decoding, no module resolution and no call.
C5_ControlBypassesDispatch ==
  /\ ControlLine(last.line, "ping") =>
       /\ ~last.trace.decoded /\ ~last.trace.imported /\ ~last.trace.called
       /\ stdout_open => last.written = <<Ok(Lit("pong"))>>
  /\ ControlLine(last.line, "health") =>
       /\ ~last.trace.decoded /\ ~last.trace.imported /\ ~last.trace.called
       /\ stdout_open =>
            /\ Len(last.written) = 1
            /\ IsOkResponse(last.written[1])
            /\ LET health == last.written[1].vals[1]
               IN /\ health.t = "dict"
                  /\ Get(health, Lit("numpy"), PyNone) = PyBool(NUMPY_AVAILABLE)
                  /\ Get(health, Lit("pandas"), PyNone) = PyBool(PANDAS_AVAILABLE)
                  /\ HasKey(health, Lit("python_version"))

\* a ping that also names a module, a function and arguments was answered
C5_Witness ==
  /\ ControlLine(last.line, "ping")
  /\ HasKey(last.line.doc, Lit("m")) /\ HasKey(last.line.doc, Lit("a"))
  /\ last.written = <<Ok(Lit("pong"))>>

\* C9: an envelope without a recognized control command in which m or f is
\* absent is answered by exactly {"error": "missing m or f"}, whatever a and
\* k hold, and nothing is resolved or called.
C9_MissingModuleOrFunction ==
  (stdout_open /\ IsObject(last.line) /\ ~IsControl(last.line)
     /\ (~HasKey(last.line.doc, Lit("m")) \/ ~HasKey(last.line.doc, Lit("f")))) =>
     /\ last.written = <<Err(<<"missing m or f">>)>>
     /\ ~last.trace.imported
     /\ ~last.trace.called

\* C10: every call that returns a value is answered by one ok line, whose
\* payload python_to_wire made a Wire Value, and serializing it never fails.
C10_ReturnIsAnswered ==
  (stdout_open /\ last.trace.called /\ ~IsRaise(last.trace.result)) =>
     /\ Len(last.written) = 1
     /\ IsOkResponse(last.written[1])
     /\ pc # "crashed"

---------------------------------------------------------------------------
(* properties of the codec, under CodecSpec *)

\* C6: wire_to_python(python_to_wire(v)) equals v for every Extended Value v.
C6_RoundTrip ==
  codec_op = "roundtrip" => ObsEqual(codec_out, codec_in)

\* C7 as claimed: a mapping that holds __bytes__ decodes to the base64
\* decoding of that key's value, whatever else it holds.
C7_BytesAlwaysWins ==
  (codec_op = "decode" /\ codec_in.t = "dict" /\ HasKey(codec_in, Lit("__bytes__"))) =>
     codec_out = b64decode(GetItem(codec_in, Lit("__bytes__")))

\* C7 as amended: a mapping that holds __bytes__ decodes to the base64
\* decoding of that key's value unless it also holds __numpy_array__ with
\* array support on or __pandas_df__ with tabular support on; it is never
\* decoded as a plain mapping.
C7_BytesUnlessEnabledMarker ==
  (codec_op = "decode" /\ codec_in.t = "dict" /\ HasKey(codec_in, Lit("__bytes__"))) =>
     /\ codec_out.t # "dict"
     /\ (/\ ~(NUMPY_AVAILABLE /\ HasKey(codec_in, Lit("__numpy_array__")))
         /\ ~(PANDAS_AVAILABLE /\ HasKey(codec_in, Lit("__pandas_df__"))))
        => codec_out = b64decode(GetItem(codec_in, Lit("__bytes__")))

\* a mapping with __bytes__, the two other markers and one more key was
\* decoded to its bytes by an instance without array and tabular support
C7_Witness ==
  /\ codec_op = "decode" /\ codec_in.t = "dict"
  /\ HasKey(codec_in, Lit("__bytes__")) /\ HasKey(codec_in, Lit("__numpy_array__"))
  /\ HasKey(codec_in, Lit("__pandas_df__")) /\ HasKey(codec_in, Lit("x"))
  /\ ~NUMPY_AVAILABLE
  /\ codec_out = PyBytes(<<1>>)

\* C8: a mapping with one marker key and other keys decodes to what the
\* mapping with the marker key alone decodes to.
C8_ExtraKeysIgnored ==
  (codec_op = "decode" /\ OneMarkerWithExtras(codec_in)) =>
     codec_out = wire_to_python(MarkerOnly(codec_in))

---------------------------------------------------------------------------
(* further properties of the dispatch loop, under Spec *)

\* the step reads a line
ReadsLine == nread' = nread + 1

\* C11: a line that is blank after trimming writes nothing, starts no
\* decoding, resolution or call, and leaves the loop ready for the next
\* line; every other line that is consumed adds exactly one response line,
\* so the response lines number the non-blank lines consumed.
C11_BlankSilentOthersAnswered ==
  [][ReadsLine =>
       IF last'.line.raw = "blank"
       THEN stdout' = stdout /\ last'.trace = NoTrace /\ pc' = "loop"
       ELSE stdout_open => Len(stdout') = Len(stdout) + 1]_vars

\* the readiness envelope of this instance
IsReadyLine(r) ==
  /\ r.t = "dict"
  /\ r.keys = <<Lit("ready"), Lit("numpy"), Lit("pandas")>>
  /\ r.vals = <<PyBool(TRUE), PyBool(NUMPY_AVAILABLE), PyBool(PANDAS_AVAILABLE)>>

\* C12: the first line written is the readiness envelope with the two
\* capability flags; it is written before the first input line is read,
\* exactly once, and no response line precedes it.
C12_ReadyFirstOnce ==
  /\ (pc = "start") => (stdout = <<>> /\ nread = 0)
  /\ (nread > 0) => (Len(stdout) >= 1)
  /\ (Len(stdout) >= 1) => IsReadyLine(stdout[1])
  /\ \A i \in 2..Len(stdout) : ~HasKey(stdout[i], Lit("ready"))

\* two requests were answered after the readiness line
C12_Witness ==
  /\ nread = 2
  /\ Len(stdout) = 3
  /\ IsReadyLine(stdout[1])
  /\ IsOkResponse(stdout[2]) /\ IsErrorResponse(stdout[3])

\* C13: requests are handled one at a time and in order: the step that reads
\* a line appends the response to that line, and nothing else, to the output
\* before the next line is read, and the loop is ready for the next line
\* only once the response to a non-blank line is on the output.
C13_AnsweredBeforeNextRead ==
  [][ReadsLine =>
       /\ stdout' = stdout \o last'.written
       /\ Len(last'.written) <= 1
       /\ (pc' = "loop" /\ last'.line.raw # "blank") =>
            (Len(last'.written) = 1 /\ stdout'[Len(stdout')] = last'.written[1])]_vars

\* an error response was written for the first line and an ok response for
\* the second, in that order
C13_Witness ==
  /\ nread = 2 /\ pc = "loop"
  /\ Len(stdout) = 3
  /\ IsErrorResponse(stdout[2])
  /\ IsOkResponse(stdout[3]) /\ last.written = <<stdout[3]>>

\* the text of an error response starts with the prefix
ErrorStartsWith(r, prefix) ==
  IsErrorResponse(r) /\ Len(r.vals[1].s) >= 1 /\ r.vals[1].s[1] = prefix

\* C14: an error response that starts with "Module not found:" or with
\* "Function not found:" is written only when the resolution failed, so the
\* callable was not called; a failure the callable raises is never reported
\* that way.
C14_ResolutionErrorsOnly ==
  (Len(last.written) = 1
     /\ (\/ ErrorStartsWith(last.written[1], "Module not found: ")
         \/ ErrorStartsWith(last.written[1], "Function not found: "))) =>
     ~last.trace.called

---------------------------------------------------------------------------
(* further properties of the codec, under CodecSpec *)

\* the Typed Array wire forms of an encoded value: the one under
\* __numpy_array__, or the data of the one under __pandas_df__
ArrayForms(wire) ==
  IF wire.t # "dict" THEN {}
  ELSE (IF HasKey(wire, Lit("__numpy_array__"))
        THEN {GetItem(wire, Lit("__numpy_array__"))} ELSE {})
       \cup (IF HasKey(wire, Lit("__pandas_df__"))
             THEN {GetItem(GetItem(wire, Lit("__pandas_df__")), Lit("data"))} ELSE {})
\* the number of bytes the tag and the shape of a wire form ask for
BytesAsked(info) ==
  Prod([i \in 1..Len(GetItem(info, Lit("shape")).items) |->
          GetItem(info, Lit("shape")).items[i].n])
  * itemsize(decode_dtype(GetItem(info, Lit("dtype"))))

\* C15: in every Typed Array wire form the encoder produces, for an array, a
\* series or the values of a frame, of any element kind, the decoded length
\* of data is product(shape) * itemsize(dtype tag).
C15_ByteLength ==
  (codec_op = "encode" /\ codec_in.t \in {"ndarray", "Series", "DataFrame"}) =>
     \A info \in ArrayForms(codec_out) :
        /\ b64decode(GetItem(info, Lit("data"))).t = "bytes"
        /\ Len(b64decode(GetItem(info, Lit("data"))).by) = BytesAsked(info)

\* the row index of the frame is the implicit range 0..n-1 over its n rows
ImplicitRange(df) == df.index = RangeIndex(0, df.values.shape[1], 1)

\* C17: the index field of an encoded frame is null exactly when the row
\* index of the frame is the implicit range 0..n-1, and is the list of the
\* index entries in every other case, a range that starts elsewhere or
\* steps otherwise included; a decoded frame carries the explicit index of
\* its wire form.
C17_FrameIndex ==
  /\ (codec_op = "encode" /\ codec_in.t = "DataFrame" /\ ~IsRaise(codec_out)) =>
       GetItem(GetItem(codec_out, Lit("__pandas_df__")), Lit("index")) =
         IF ImplicitRange(codec_in) THEN PyNone
         ELSE PyList(index_list(codec_in.index))
  /\ (codec_op = "decode" /\ codec_in.t = "dict" /\ codec_out.t = "DataFrame"
        /\ GetItem(GetItem(codec_in, Lit("__pandas_df__")), Lit("index")).t = "list") =>
       codec_out.index =
         Index(GetItem(GetItem(codec_in, Lit("__pandas_df__")), Lit("index")).items)

---------------------------------------------------------------------------
(* further properties of the bridge, under Spec *)

\* the envelope names a module and a function and nothing else, and on an
\* interpreter that has imported nothing yet the module cannot be imported
\* or does not have the function
UnresolvedWhenFresh(doc) ==
  /\ doc.keys = <<Lit("m"), Lit("f")>>
  /\ GetItem(doc, Lit("m")).t = "str" /\ GetItem(doc, Lit("f")).t = "str"
  /\ Truthy(GetItem(doc, Lit("m"))) /\ Truthy(GetItem(doc, Lit("f")))
  /\ \/ IsRaise(import_module(GetItem(doc, Lit("m")), PyNone))
     \/ \A f \in Attributes(import_module(GetItem(doc, Lit("m")), PyNone).name) :
           GetItem(doc, Lit("f")).s # <<f>>
\* the response such an interpreter gives to that envelope
FreshResponse(doc) ==
  inner_except(IF IsRaise(import_module(GetItem(doc, Lit("m")), PyNone))
               THEN import_module(GetItem(doc, Lit("m")), PyNone)
               ELSE Raise("AttributeError", "module has no attribute"),
               GetItem(doc, Lit("m")), GetItem(doc, Lit("f")))

\* C16: the response to a line that reaches no callable is the same after
\* every history: a blank line writes nothing, invalid JSON, ping and health
\* get their fixed responses, a module or function that does not resolve on
\* a fresh interpreter gets the error a fresh interpreter gives; and the
\* flags of a health response are those of the readiness line.
C16_SameResponseAfterAnyHistory ==
  (stdout_open /\ nread >= 1) =>
    /\ last.line.raw = "blank" => last.written = <<>>
    /\ last.line.raw = "invalid" =>
         last.written = <<outer_except(json_loads(last.line))>>
    /\ ControlLine(last.line, "ping") => last.written = <<PingResponse>>
    /\ ControlLine(last.line, "health") =>
         /\ last.written = <<json_dumps(HealthResponse)>>
         /\ \A flag \in {Lit("numpy"), Lit("pandas")} :
              GetItem(last.written[1].vals[1], flag) = GetItem(stdout[1], flag)
    /\ (IsObject(last.line) /\ UnresolvedWhenFresh(last.line.doc)) =>
         last.written = <<FreshResponse(last.line.doc)>>

\* the line is an envelope that reaches the invocation: no control command,
\* a module that imports and a function the module has
Resolved(line) ==
  /\ IsObject(line) /\ ~IsControl(line)
  /\ Truthy(Get(line.doc, Lit("m"), PyStr(<<>>)))
  /\ Truthy(Get(line.doc, Lit("f"), PyStr(<<>>)))
  /\ Bind(import_module(Get(line.doc, Lit("m"), PyStr(<<>>)), PyNone), LAMBDA mod :
          /\ ~IsRaise(mod)
          /\ py_getattr(mod, Get(line.doc, Lit("f"), PyStr(<<>>))).t = "function")
\* and its arguments are of the expected kinds: a decodes to a list and k
\* decodes to a mapping
Dispatched(line) ==
  /\ Resolved(line)
  /\ wire_to_python(Get(line.doc, Lit("a"), PyList(<<>>))).t = "list"
  /\ wire_to_python(Get(line.doc, Lit("k"), PyDict(<<>>, <<>>))).t = "dict"

\* C18: a request that reaches the invocation with a that decodes to a list
\* and k that decodes to a mapping has its callable invoked, with the
\* decoded items of a as the positional arguments and the decoded items of
\* k as the keyword arguments: none when k is absent or empty.
C18_InvokedWithDecodedArguments ==
  (nread >= 1 /\ Resolved(last.line)) =>
     Bind(wire_to_python(Get(last.line.doc, Lit("a"), PyList(<<>>))), LAMBDA args :
     Bind(wire_to_python(Get(last.line.doc, Lit("k"), PyDict(<<>>, <<>>))), LAMBDA kwargs :
       (args.t = "list" /\ kwargs.t = "dict") =>
          /\ last.trace.called
          /\ last.trace.pos = PyTuple(args.items)
          /\ last.trace.kw = kwargs
          /\ ~HasKey(last.line.doc, Lit("k")) => last.trace.kw = PyDict(<<>>, <<>>)))
\* a call that was given one positional and one keyword argument
C18_Witness ==
  /\ nread >= 1 /\ Dispatched(last.line)
  /\ last.trace.called
  /\ last.trace.pos = PyTuple(<<Ints(<<1, 2>>)>>)
  /\ last.trace.kw = PyDict(<<Lit("x")>>, <<PyInt(1)>>)

====
